---- MODULE Spec2Model ----
(***************************************************************************)
(* The code generator of the Forg compiler (src/compiler.py) and its       *)
(* scoped symbol table (src/Envorment.py), as a state machine.             *)
(*                                                                         *)
(* The Compiler object's fields are the variables.  The recursive visitor  *)
(* is unfolded into one action per stretch of a visit method between two   *)
(* recursive compile() calls; `stack` is the Python call stack of the      *)
(* visit methods that are waiting for such a call to return.  The AST is   *)
(* the input: each Visit action draws the next node the visitor meets.     *)
(*                                                                         *)
(* llvmlite's IR builder is modelled by what the generator relies on:      *)
(* instructions are inserted at the builder's anchor, a terminator may be  *)
(* set only on a block that has none (an assert), store checks the         *)
(* pointee type, a global name may be registered once.  ir.Block declares  *)
(* no delete(), so the call of line 257 raises AttributeError; the model    *)
(* also takes the step of a library that provides it.                      *)
(* An exception leaves compile(): `raised` names it, and no action is      *)
(* enabled any more; `stack` then shows where it was raised.               *)
(*                                                                         *)
(* Five specifications share the variables.  Spec compiles every program   *)
(* of up to MaxStmts statements and hands the result to the driver         *)
(* (src/main.py).  EnvSpec calls the symbol table by itself.  ProgramSpec   *)
(* compiles whole programs with infix expressions, among them the while    *)
(* and for loops of src/test_runner.py, and runs the code emitted for main *)
(* one instruction at a time; ProgramLiveSpec adds that the run goes on.   *)
(* TextSpec compiles every program of up to MaxTexts statements with       *)
(* string literals, printf calls and powers in it.  ConvertSpec converts   *)
(* one string literal of up to MaxLen characters.                          *)
(***************************************************************************)
EXTENDS Integers, Sequences, FiniteSets, TLC

\* The number of statement nodes of the program being compiled.
MaxStmts == 4


VARIABLES
    module,       \* self.module: the functions created so far, in order
    blocks,       \* the ir.Block objects created so far (by identity)
    builder,      \* self.builder: the insertion cursor [block, anchor]
    counter,      \* self.counter
    envs,         \* the Environment objects created so far (by identity)
    env,          \* self.env: the active scope
    errors,       \* self.errors
    breakpoints,  \* self.breakpoints
    continues,    \* self.continues
    nvalues,      \* how many ir values (instruction results) exist
    raised,       \* "none", or the exception that left compile()
    stack,        \* the visit methods waiting for a nested compile()
    node,         \* the node handed to the visit method that ran last
    fuel,         \* statement nodes the program may still contain
    driver,       \* main(): where it is, and what it handed on (src/main.py)
    call,         \* the Environment method called last, with what it returned
    program,      \* the statements of a given program in the order visited,
                  \* << >> when the AST is drawn node by node
    exec          \* the run of the emitted instructions

vars == <<module, blocks, builder, counter, envs, env, errors, breakpoints,
          continues, nvalues, raised, stack, node, fuel, driver, call, program, exec>>

\* What the visit methods of the generator leave alone.
others == <<driver, call, program, exec>>

----------------------------------------------------------------------------
(* Values and types *)

type_map == [int |-> "i32", float |-> "float", bool |-> "i1",
             void |-> "void", str |-> "i8*"]

\* An ir value: k says what it is, id which one, ty the type of the value
\* (for a pointer, the type it points to).
NoVal    == [k |-> "none", id |-> 0, ty |-> "none"]
Constant(t, v) == [k |-> "const", id |-> 0, ty |-> t, v |-> v]
Const(t) == Constant(t, 0)
FuncVal(i) == [k |-> "func", id |-> i, ty |-> "fn"]
PrintfVal == [k |-> "global", id |-> 0, ty |-> "fn"]
TrueVal   == [k |-> "global", id |-> 1, ty |-> "i1"]
FalseVal  == [k |-> "global", id |-> 2, ty |-> "i1"]

\* The global of a string literal: entry i of the module, an array of type
\* ty; as a value it is a pointer to that array.
StringVal(i, ty) == [k |-> "string", id |-> i, ty |-> ty]
ArrayType(n) == "[" \o ToString(n) \o " x i8]"
PointerTo(ty) == ty \o "*"

\* The type of a value as an operand.
ValueType(v) == IF v.k = "string" THEN PointerTo(v.ty) ELSE v.ty

\* Python's None, as lookup returns it.
None == [val |-> NoVal, type |-> "None"]

----------------------------------------------------------------------------
(* Environment (src/Envorment.py) *)

NewEnvironment(parent) == [records |-> << >>, parent |-> parent, name |-> "global"]

\* A define that keeps a binding the scope already has.
define_IfAbsent(es, e, name, value, type) ==
    IF name \in DOMAIN es[e].records THEN es
    ELSE [es EXCEPT ![e].records = (name :> [val |-> value, type |-> type]) @@ @]

\* A define that also replaces the binding the parent has.
define_Through(es, e, name, value, type) ==
    [i \in DOMAIN es |->
        IF i = e \/ (i = es[e].parent /\ name \in DOMAIN es[i].records)
        THEN [es[i] EXCEPT !.records = (name :> [val |-> value, type |-> type]) @@ @]
        ELSE es[i]]

define(es, e, name, value, type) ==
    [es EXCEPT ![e].records = (name :> [val |-> value, type |-> type]) @@ @]

\* Environment.define returns the value it stored (line 42).
DefineReturns(name, value, type) == value

\* A resolve in which the farthest scope that binds the name wins.
RECURSIVE resolve_Far(_, _, _)
resolve_Far(es, e, name) ==
    IF es[e].parent # 0 /\ resolve_Far(es, es[e].parent, name).type # "None"
    THEN resolve_Far(es, es[e].parent, name)
    ELSE IF name \in DOMAIN es[e].records THEN es[e].records[name]
    ELSE [val |-> [k |-> "none", id |-> 0, ty |-> "none"], type |-> "None"]

\* A resolve that asks the scope and not its parent.
resolve_Local(es, e, name) ==
    IF name \in DOMAIN es[e].records THEN es[e].records[name]
    ELSE [val |-> [k |-> "none", id |-> 0, ty |-> "none"], type |-> "None"]

RECURSIVE resolve(_, _, _)
resolve(es, e, name) ==
    IF name \in DOMAIN es[e].records THEN es[e].records[name]
    ELSE IF es[e].parent # 0 THEN resolve(es, es[e].parent, name)
    ELSE None

lookup(es, e, name) == resolve(es, e, name)

\* A lookup that copies what it found into the scope it was called on.
AfterLookup_Caching(es, e, name) ==
    IF resolve(es, e, name).type = "None" THEN es
    ELSE [es EXCEPT ![e].records =
             (name :> resolve(es, e, name)) @@ @]

\* The scopes after lookup(name) on scope e: lookup and __resolve assign
\* no field.
AfterLookup(es, e, name) == es

----------------------------------------------------------------------------
(* The Compiler object, as one record, for the visit methods to work on *)

Self == [module |-> module, blocks |-> blocks, builder |-> builder,
         counter |-> counter, envs |-> envs, env |-> env, errors |-> errors,
         breakpoints |-> breakpoints, continues |-> continues,
         nvalues |-> nvalues, raised |-> raised]

Commit(c) ==
    /\ module' = c.module
    /\ blocks' = c.blocks
    /\ builder' = c.builder
    /\ counter' = c.counter
    /\ envs' = c.envs
    /\ env' = c.env
    /\ errors' = c.errors
    /\ breakpoints' = c.breakpoints
    /\ continues' = c.continues
    /\ nvalues' = c.nvalues
    /\ raised' = c.raised

Ok(c) == c.raised = "none"

\* An exception: nothing after it in the method runs.
Raise(c, exc) == IF Ok(c) THEN [c EXCEPT !.raised = exc] ELSE c

----------------------------------------------------------------------------
(* ir.IRBuilder and ir.Function, as the generator uses them *)

InsertAt(s, i, x) == SubSeq(s, 1, i) \o <<x>> \o SubSeq(s, i + 1, Len(s))

\* IRBuilder._insert: the instruction goes in at the anchor.
Insert(c, instr) ==
    IF ~Ok(c) THEN c
    ELSE IF c.builder.block = 0 THEN Raise(c, "AttributeError")
    ELSE LET b == c.builder.block IN
         [c EXCEPT !.blocks[b].instructions = InsertAt(@, c.builder.anchor, instr),
                   !.builder.anchor = @ + 1]

\* IRBuilder._set_terminator: asserts that the block has no terminator yet.
SetTerminator(c, instr) ==
    IF ~Ok(c) THEN c
    ELSE IF c.builder.block = 0 THEN Raise(c, "AttributeError")
    ELSE IF c.blocks[c.builder.block].is_terminated THEN Raise(c, "AssertionError")
    ELSE LET b == c.builder.block IN
         [Insert(c, instr) EXCEPT !.blocks[b].is_terminated = TRUE]

Ret(c, value)     == SetTerminator(c, [op |-> "ret", value |-> value])
Branch(c, target) == SetTerminator(c, [op |-> "br", target |-> target])
CBranch(c, cond, t, f) ==
    SetTerminator(c, [op |-> "cbranch", cond |-> cond, truebr |-> t, falsebr |-> f])

PositionAtStart(c, b) == IF Ok(c) THEN [c EXCEPT !.builder = [block |-> b, anchor |-> 0]] ELSE c
PositionAtEnd(c, b) ==
    IF Ok(c) THEN [c EXCEPT !.builder = [block |-> b,
                                         anchor |-> Len(c.blocks[b].instructions)]]
    ELSE c

\* Function.append_basic_block on function fn: the new block is the last of
\* c.blocks afterwards.
AppendBlockTo(c, fn, name) ==
    IF ~Ok(c) THEN c
    ELSE [c EXCEPT !.blocks = Append(@, [parent |-> fn, name |-> name, n |-> c.counter,
                                         instructions |-> << >>,
                                         is_terminated |-> FALSE]),
                   !.module[fn].blocks = Append(@, Len(c.blocks) + 1)]

\* IRBuilder.append_basic_block: in the function of the block the builder
\* is at; a builder that is at no block has no function.
AppendBasicBlock(c, name) ==
    IF ~Ok(c) THEN c
    ELSE IF c.builder.block = 0 THEN Raise(c, "AttributeError")
    ELSE AppendBlockTo(c, c.blocks[c.builder.block].parent, name)

LastBlock(c) == Len(c.blocks)

IsTerminated(c) == c.blocks[c.builder.block].is_terminated

\* block.delete(): llvmlite's ir.Block declares no method of that name, so
\* the call raises AttributeError; a library that provides it (has_delete)
\* takes the block out of its function.
DeleteBlock(c, b, has_delete) ==
    IF ~Ok(c) THEN c
    ELSE IF ~has_delete THEN Raise(c, "AttributeError")
    ELSE LET fn == c.blocks[b].parent IN
         [c EXCEPT !.module[fn].blocks = SelectSeq(@, LAMBDA x : x # b)]

\* An instruction with a result is one more ir value.
Counted(c) == IF Ok(c) THEN [c EXCEPT !.nvalues = @ + 1] ELSE c

\* builder.alloca(typ): a new stack slot.
Alloca(c, typ) == Counted(Insert(c, [op |-> "alloca", id |-> c.nvalues + 1, ty |-> typ]))

\* The slot the next alloca returns.
NewSlot(c, typ) == [k |-> "alloca", id |-> c.nvalues + 1, ty |-> typ]

IsPointer(v) == v.k \in {"alloca", "func", "global", "string"}

\* builder.store(value, ptr): the value's type must be the pointee's.
Store(c, value, ptr) ==
    IF ~Ok(c) THEN c
    ELSE IF ~IsPointer(ptr) \/ ptr.ty # ValueType(value) THEN Raise(c, "TypeError")
    ELSE Insert(c, [op |-> "store", value |-> value, ptr |-> ptr])

\* builder.load(ptr)
Load(c, ptr) ==
    IF ~Ok(c) THEN c
    ELSE IF ~IsPointer(ptr) THEN Raise(c, "TypeError")
    ELSE Counted(Insert(c, [op |-> "load", id |-> c.nvalues + 1, ptr |-> ptr]))

\* builder.call(func, args) with no arguments: func must be a function that
\* takes none.
Call(c, func) ==
    IF ~Ok(c) THEN c
    ELSE IF func.k # "func" THEN Raise(c, "AttributeError")
    ELSE IF Len(c.module[func.id].args) # 0 THEN Raise(c, "IndexError")
    ELSE Counted(Insert(c, [op |-> "call", id |-> c.nvalues + 1, func |-> func]))

\* The result of the instruction inserted last.
Inst(c, typ) == [k |-> "inst", id |-> c.nvalues, ty |-> typ]

----------------------------------------------------------------------------
(* Expressions *)

\* A literal node; n is the number it holds (for a boolean, 1 is true).
Literal(type, n) == [type |-> type, value |-> "", n |-> n]
IntegerLiteralOf(n) == Literal("IntegerLiteral", n)
IntegerLiteral == IntegerLiteralOf(0)
FloatLiteral   == Literal("FloatLiteral", 0)
BooleanLiteral == Literal("BooleanLiteral", 1)
InfixExpression(left, operator, right) ==
    [type |-> "InfixExpression", value |-> "", operator |-> operator,
     left_node |-> left, right_node |-> right]
IdentifierLiteral(n) == [type |-> "IdentifierLiteral", value |-> n]
CallExpression(n)    == [type |-> "CallExpression", value |-> n]

\* A string literal, its text a sequence of characters, and a call with
\* arguments.
StringLiteral(string) == [type |-> "StringLiteral", value |-> "", string |-> string]
CallWith(n, arguments) ==
    [type |-> "CallExpression", value |-> n, arguments |-> arguments]

\* What the expression methods return, with the Compiler as they leave it.
Result(c, value, Type) == [c |-> c, value |-> value, Type |-> Type]
Failed(c, exc) == Result(Raise(c, exc), NoVal, "none")
Value(c, ty, Type) == Result(c, Inst(c, ty), Type)

\* Lines 423-427: the callee r that lookup returned is called.
CallResolved(c, r) ==
    IF r = None THEN Failed(c, "TypeError")
    ELSE Value(Call(c, r.val), r.type, r.type)

\* Compiler.__visit_call_expression, for a call without arguments.
VisitCallExpression(c, name) ==
    IF name = "printf" THEN Failed(c, "IndexError")
    ELSE CallResolved(c, lookup(c.envs, c.env, name))

\* Lines 445-448: the identifier's slot r is loaded.
LoadResolved(c, r) ==
    IF r = None THEN Failed(c, "TypeError")
    ELSE Value(Load(c, r.val), r.val.ty, r.type)

\* builder.add, sub, mul, sdiv, srem and their float forms: the operands
\* must be of one type.
Binary(c, op, lhs, rhs) ==
    IF ~Ok(c) THEN c
    ELSE IF lhs.ty # rhs.ty THEN Raise(c, "ValueError")
    ELSE Counted(Insert(c, [op |-> op, id |-> c.nvalues + 1, lhs |-> lhs, rhs |-> rhs]))

\* builder.icmp_signed and builder.fcmp_ordered
Compare(c, op, cmp, lhs, rhs) ==
    Counted(Insert(c, [op |-> op, cmp |-> cmp, id |-> c.nvalues + 1,
                       lhs |-> lhs, rhs |-> rhs]))

IsIntType(Type)   == Type \in {"i32", "i1"}
IsFloatType(Type) == Type = "float"

Arithmetic == [int |-> ("+" :> "add") @@ ("-" :> "sub") @@ ("*" :> "mul")
                        @@ ("/" :> "sdiv") @@ ("%" :> "srem"),
               float |-> ("+" :> "fadd") @@ ("-" :> "fsub") @@ ("*" :> "fmul")
                          @@ ("/" :> "fdiv") @@ ("%" :> "frem")]
Comparisons == {"<", "<=", ">", ">=", "=="}

\* The global of the module that has the name: module.get_global, for a
\* name that is there.
GlobalNamed(c, name) ==
    IF "initializer" \in DOMAIN
           c.module[CHOOSE i \in 1..Len(c.module) : c.module[i].name = name]
    THEN StringVal(CHOOSE i \in 1..Len(c.module) : c.module[i].name = name,
                   c.module[CHOOSE i \in 1..Len(c.module) :
                                c.module[i].name = name].return_type)
    ELSE FuncVal(CHOOSE i \in 1..Len(c.module) : c.module[i].name = name)

\* ir.Function(module, type, name) with no block: a declaration.
Declare(c, name, ret, types) ==
    IF ~Ok(c) THEN c
    ELSE IF name \in {"printf", "true", "false"}
                      \cup {c.module[i].name : i \in 1..Len(c.module)}
         THEN Raise(c, "DuplicatedNameError")
    ELSE [c EXCEPT !.module = Append(@, [name |-> name, return_type |-> ret,
                                         args |-> types, blocks |-> << >>])]

\* builder.call(func, args): a missing argument is an IndexError, one of
\* another type than the parameter a TypeError; arguments beyond the
\* parameters are not looked at.
CallArguments(c, func, args) ==
    IF ~Ok(c) THEN c
    ELSE IF func.k # "func" THEN Raise(c, "AttributeError")
    ELSE IF Len(args) < Len(c.module[func.id].args) THEN Raise(c, "IndexError")
    ELSE IF \E i \in 1..Len(c.module[func.id].args) :
                ValueType(args[i]) # c.module[func.id].args[i]
         THEN Raise(c, "TypeError")
    ELSE Counted(Insert(c, [op |-> "call", id |-> c.nvalues + 1, func |-> func,
                            args |-> args]))

\* builder.sitofp, fptosi and bitcast
Convert(c, op, value, ty) ==
    Counted(Insert(c, [op |-> op, id |-> c.nvalues + 1, value |-> value, ty |-> ty]))

\* A power operation that declares the primitive at every use.
PowerFunction_Redeclared(c, name, result_type) ==
    IF ~Ok(c) THEN c
    ELSE [c EXCEPT !.module = Append(@, [name |-> name, return_type |-> result_type,
                                         args |-> <<result_type, result_type>>,
                                         blocks |-> << >>])]

\* Lines 506-511: the primitive is looked up in the module, and declared
\* if the lookup raises KeyError.
PowerFunction(c, name, result_type) ==
    IF ~Ok(c) THEN c
    ELSE IF name \in {c.module[i].name : i \in 1..Len(c.module)} THEN c
    ELSE Declare(c, name, result_type, <<result_type, result_type>>)

\* Line 514, for the compiler d in which the primitive is declared.
PowerCall(d, name, base, exponent) ==
    IF ~Ok(d) THEN d
    ELSE CallArguments(d, GlobalNamed(d, name), <<base, exponent>>)

\* Compiler.__power_operation_float: no type of the type map is the
\* double type, so the name is that of the f32 primitive.
PowerOperationFloat(c, base, exponent, result_type) ==
    PowerCall(PowerFunction(c, "llvm.pow.f32", result_type), "llvm.pow.f32",
              base, exponent)

\* Lines 490-491, and line 494 for the two floats.
PowerOfFloats(c) ==
    IF ~Ok(c) THEN c
    ELSE PowerOperationFloat(c, [k |-> "inst", id |-> c.nvalues - 1, ty |-> "float"],
                             Inst(c, "float"), "float")

\* Compiler.__power_operation
PowerOperation(c, base, exponent, result_type) ==
    Convert(PowerOfFloats(Convert(Convert(c, "sitofp", base, "float"),
                                  "sitofp", exponent, "float")),
            "fptosi",
            Inst(PowerOfFloats(Convert(Convert(c, "sitofp", base, "float"),
                                       "sitofp", exponent, "float")), "float"),
            result_type)

\* The operators the match of lines 343-371 and 375-403 has a case for.
OperatorTable == DOMAIN Arithmetic.int \cup Comparisons \cup {"^"}

\* An infix lowering that raises for an operator it has no case for.
SameClassInfix_Rejecting(c, class, operator, lhs, rhs) ==
    CASE operator \in DOMAIN Arithmetic[class] ->
           Value(Binary(c, Arithmetic[class][operator], lhs, rhs),
                 type_map[class], type_map[class])
      [] operator \in Comparisons ->
           Value(Compare(c, IF class = "int" THEN "icmp" ELSE "fcmp", operator, lhs, rhs),
                 "i1", "i1")
      [] operator = "^" /\ class = "int" ->
           Value(PowerOperation(c, lhs, rhs, type_map.int), type_map.int, type_map.int)
      [] operator = "^" /\ class = "float" ->
           Value(PowerOperationFloat(c, lhs, rhs, type_map.float),
                 type_map.float, type_map.float)
      [] operator \notin OperatorTable ->
           Failed(c, "ValueError")

\* Lines 341-403: the match on the operator for operands of one class (int
\* or float).  An operator the match has no case for leaves value None.
SameClassInfix(c, class, operator, lhs, rhs) ==
    CASE operator \in DOMAIN Arithmetic[class] ->
           Value(Binary(c, Arithmetic[class][operator], lhs, rhs),
                 type_map[class], type_map[class])
      [] operator \in Comparisons ->
           Value(Compare(c, IF class = "int" THEN "icmp" ELSE "fcmp", operator, lhs, rhs),
                 "i1", "i1")
      [] operator = "^" /\ class = "int" ->
           Value(PowerOperation(c, lhs, rhs, type_map.int), type_map.int, type_map.int)
      [] operator = "^" /\ class = "float" ->
           Value(PowerOperationFloat(c, lhs, rhs, type_map.float),
                 type_map.float, type_map.float)
      [] operator \notin OperatorTable ->
           Result(c, NoVal, type_map[class])

\* Lines 339-405, with both operands resolved: operands of two classes
\* match neither branch, and (None, None) is returned.
InfixResolved(l, r, operator) ==
    IF ~Ok(r.c) THEN Result(r.c, NoVal, "none")
    ELSE IF IsIntType(r.Type) /\ IsIntType(l.Type)
         THEN SameClassInfix(r.c, "int", operator, l.value, r.value)
    ELSE IF IsFloatType(r.Type) /\ IsFloatType(l.Type)
         THEN SameClassInfix(r.c, "float", operator, l.value, r.value)
    ELSE Result(r.c, NoVal, "None")

RECURSIVE ResolveValue(_, _)

InfixLeft(l, e) == InfixResolved(l, ResolveValue(l.c, e.right_node), e.operator)

\* Compiler.__visit_infix_expression
VisitInfixExpression(c, e) == InfixLeft(ResolveValue(c, e.left_node), e)

\* Compiler.__increment_counter
NextCounter(c) == IF Ok(c) THEN [c EXCEPT !.counter = @ + 1] ELSE c

\* A replacement of the escape by the newline alone.
RECURSIVE Replaced_NewlineOnly(_)
Replaced_NewlineOnly(string) ==
    IF string = << >> THEN << >>
    ELSE IF Len(string) >= 2 /\ string[1] = "\\" /\ string[2] = "n"
         THEN <<"LF">> \o Replaced_NewlineOnly(SubSeq(string, 3, Len(string)))
    ELSE <<string[1]>> \o Replaced_NewlineOnly(Tail(string))

\* str.replace of line 465, on a sequence of characters: every backslash
\* followed by n becomes a newline and a null character.
RECURSIVE Replaced(_)
Replaced(string) ==
    IF string = << >> THEN << >>
    ELSE IF Len(string) >= 2 /\ string[1] = "\\" /\ string[2] = "n"
         THEN <<"LF", "NUL">> \o Replaced(SubSeq(string, 3, Len(string)))
    ELSE <<string[1]>> \o Replaced(Tail(string))

\* Lines 465-468: the characters of the array constant.
Bytes(string) == Replaced(string) \o <<"NUL">>

\* A naming of the globals by the length of their text.
StringName_ByLength(n, fmt) == "__str_" \o ToString(Len(fmt))

\* Line 471: the name of the global, n being the incremented counter.
StringName(n, fmt) == "__str_" \o ToString(n)

\* Lines 468-474: the global variable of the array constant fmt.
GlobalString(c, fmt) ==
    IF StringName(c.counter, fmt) \in {"printf", "true", "false"}
           \cup {c.module[i].name : i \in 1..Len(c.module)}
    THEN Raise(c, "DuplicatedNameError")
    ELSE [c EXCEPT !.module = Append(@, [name |-> StringName(c.counter, fmt),
                                         return_type |-> ArrayType(Len(fmt)),
                                         args |-> << >>, blocks |-> << >>,
                                         initializer |-> fmt])]

\* Compiler.__convert_string
ConvertString(c, string) ==
    IF ~Ok(c) THEN Result(c, NoVal, "none")
    ELSE Result(GlobalString(NextCounter(c), Bytes(string)),
                StringVal(Len(c.module) + 1, ArrayType(Len(Bytes(string)))),
                PointerTo(ArrayType(Len(Bytes(string)))))

\* Whether value v is the result of a load instruction, and the pointer
\* that instruction loads from.
LoadOf(c, v) ==
    {c.blocks[b].instructions[j].ptr :
         <<b, j>> \in {x \in (1..Len(c.blocks)) \X (1..8) :
                           /\ x[2] <= Len(c.blocks[x[1]].instructions)
                           /\ c.blocks[x[1]].instructions[x[2]].op = "load"
                           /\ c.blocks[x[1]].instructions[x[2]].id = v.id}}
IsLoadInstr(c, v) == v.k = "inst" /\ LoadOf(c, v) # {}

\* Lines 533 and 540: printf is called with the format pointer, which is
\* the value inserted last, and the rest of the arguments.
PrintfCall(c, rest_params) ==
    IF ~Ok(c) THEN c
    ELSE Counted(Insert(c, [op |-> "call", id |-> c.nvalues + 1, func |-> PrintfVal,
                            args |-> <<Inst(c, "i8*")>> \o rest_params]))

\* Lines 529-533: the format is a loaded variable.
PrintfVariable(c, ptr, rest_params) ==
    PrintfCall(Convert(Load(c, ptr), "bitcast", Inst(Load(c, ptr), ptr.ty), "i8*"),
               rest_params)

\* Lines 538-540: the format is the global named after the counter.
PrintfLiteral(c, param, rest_params) ==
    IF ~Ok(c) THEN c
    ELSE IF "__str_" \o ToString(c.counter)
                \notin {c.module[i].name : i \in 1..Len(c.module)}
         THEN Raise(c, "KeyError")
    ELSE PrintfCall(Convert(c, "bitcast",
                            GlobalNamed(c, "__str_" \o ToString(c.counter)), "i8*"),
                    rest_params)

\* Lines 523-540, after the first argument went to a slot of its own.
PrintfFormat(c, params) ==
    IF ~Ok(c) THEN c
    ELSE IF IsLoadInstr(c, params[1])
         THEN PrintfVariable(c, CHOOSE ptr \in LoadOf(c, params[1]) : TRUE, Tail(params))
    ELSE PrintfLiteral(c, params[1], Tail(params))

\* Compiler.builtin_printf
BuiltinPrintf(c, params, return_type) ==
    PrintfFormat(Store(Alloca(c, return_type), params[1], NewSlot(c, return_type)),
                 params)

\* Lines 411-417: the arguments resolved so far, with the compiler as the
\* last of them left it.
Argued(r, v) == [c |-> v.c, args |-> Append(r.args, v.value),
                 types |-> Append(r.types, v.Type)]

RECURSIVE ResolveArguments(_, _, _)
ResolveArguments(r, params, i) ==
    IF i > Len(params) THEN r
    ELSE ResolveArguments(Argued(r, ResolveValue(r.c, params[i])), params, i + 1)

\* Lines 419-427, with the arguments resolved.
CallArgued(r, name) ==
    IF ~Ok(r.c) THEN Result(r.c, NoVal, "none")
    ELSE IF name = "printf"
         THEN IF r.types = << >> THEN Failed(r.c, "IndexError")
              ELSE Value(BuiltinPrintf(r.c, r.args, r.types[1]), "i32", type_map.int)
    ELSE IF lookup(r.c.envs, r.c.env, name) = None THEN Failed(r.c, "TypeError")
    ELSE Value(CallArguments(r.c, lookup(r.c.envs, r.c.env, name).val, r.args),
               lookup(r.c.envs, r.c.env, name).type,
               lookup(r.c.envs, r.c.env, name).type)

\* Compiler.__visit_call_expression, for a call with arguments.
VisitCallArguments(c, e) ==
    CallArgued(ResolveArguments([c |-> c, args |-> << >>, types |-> << >>],
                                e.arguments, 1),
               e.value)

\* Compiler.__resolve_value
ResolveValue(c, e) ==
    IF ~Ok(c) THEN Result(c, NoVal, "none")
    ELSE CASE e.type = "IntegerLiteral" ->
                Result(c, Constant(type_map.int, e.n), type_map.int)
           [] e.type = "FloatLiteral" ->
                Result(c, Constant(type_map.float, e.n), type_map.float)
           [] e.type = "BooleanLiteral" ->
                Result(c, Constant("i1", IF e.n # 0 THEN 1 ELSE 0), "i1")
           [] e.type = "IdentifierLiteral" -> LoadResolved(c, lookup(c.envs, c.env, e.value))
           [] e.type = "InfixExpression" -> VisitInfixExpression(c, e)
           [] e.type = "StringLiteral" -> ConvertString(c, e.string)
           [] e.type = "CallExpression" ->
                IF "arguments" \in DOMAIN e THEN VisitCallArguments(c, e)
                ELSE VisitCallExpression(c, e.value)

----------------------------------------------------------------------------
(* Statements without a body *)

\* self.env.define(name, value, Type)
Bind(c, name, value, Type) ==
    IF Ok(c) THEN [c EXCEPT !.envs = define(@, c.env, name, value, Type)] ELSE c

\* A let that asks the current scope alone whether the name is bound.
LetResolved_Shadowing(c, name, value, Type) ==
    IF ~Ok(c) THEN c
    ELSE IF name \notin DOMAIN c.envs[c.env].records
         THEN Bind(Store(Alloca(c, Type), value, NewSlot(c, Type)),
                   name, NewSlot(c, Type), Type)
         ELSE Store(c, value, lookup(c.envs, c.env, name).val)

\* Lines 131-142, with the value resolved.
LetResolved(c, name, value, Type) ==
    IF ~Ok(c) THEN c
    ELSE IF lookup(c.envs, c.env, name) = None
         THEN Bind(Store(Alloca(c, Type), value, NewSlot(c, Type)),
                   name, NewSlot(c, Type), Type)
         ELSE Store(c, value, lookup(c.envs, c.env, name).val)

LetOf(r, name) == LetResolved(r.c, name, r.value, r.Type)

\* Compiler.__visit_let_statement
LetStatement(c, name, value) == LetOf(ResolveValue(c, value), name)

\* Compiler.__visit_return_statement
ReturnStatement(c, value) ==
    Ret(ResolveValue(c, value).c, ResolveValue(c, value).value)

ErrorMessage(name) == <<"has not been declared before it was re-assigned", name>>

\* An assignment that raises on a name that does not resolve.
AssignResolved_Raising(c, name, value) ==
    IF ~Ok(c) THEN c
    ELSE IF lookup(c.envs, c.env, name) = None
         THEN Raise(c, "NameError")
         ELSE Store(c, value, lookup(c.envs, c.env, name).val)

\* Lines 212-216, with the value resolved.
AssignResolved(c, name, value) ==
    IF ~Ok(c) THEN c
    ELSE IF lookup(c.envs, c.env, name) = None
         THEN [c EXCEPT !.errors = Append(@, ErrorMessage(name))]
         ELSE Store(c, value, lookup(c.envs, c.env, name).val)

AssignOf(r, name) == AssignResolved(r.c, name, r.value)

\* Compiler.__visit_assign_statement
AssignStatement(c, name, value) == AssignOf(ResolveValue(c, value), name)

\* A generator for which a break outside a loop is a no-op.
BreakStatement_Silent(c) ==
    IF c.breakpoints = << >> THEN c
    ELSE Branch(c, c.breakpoints[Len(c.breakpoints)])

\* Compiler.__visit_break_statement
BreakStatement(c) ==
    IF c.breakpoints = << >> THEN Raise(c, "IndexError")
    ELSE Branch(c, c.breakpoints[Len(c.breakpoints)])

\* Compiler.__visit_continue_statement
ContinueStatement(c) ==
    IF c.continues = << >> THEN Raise(c, "IndexError")
    ELSE Branch(c, c.continues[Len(c.continues)])

\* Compiler.__visit_expression_statement: compile(node.expr) has a case for
\* a call and for an infix expression, and none for the other expressions.
ExpressionStatement(c, expr) ==
    IF expr.type = "CallExpression" THEN ResolveValue(c, expr).c
    ELSE IF expr.type = "InfixExpression" THEN VisitInfixExpression(c, expr).c
    ELSE c

----------------------------------------------------------------------------
(* Statements with a body: the part before and the part after each nested *)
(* compile()                                                               *)

GlobalNames(c) == {"printf", "true", "false"}
                    \cup {c.module[i].name : i \in 1..Len(c.module)}

\* Lines 177-181: one slot per parameter, the argument stored into it.
RECURSIVE StoreParams(_, _, _)
StoreParams(c, types, i) ==
    IF i > Len(types) THEN c
    ELSE StoreParams(Store(Alloca(c, types[i]), [k |-> "arg", id |-> i, ty |-> types[i]],
                           NewSlot(c, types[i])),
                     types, i + 1)

\* Lines 191-194: the parameters bound in the function's scope; first is
\* the id of the first parameter's slot.
RECURSIVE DefineParams(_, _, _, _)
DefineParams(c, params, first, i) ==
    IF i > Len(params) THEN c
    ELSE DefineParams(Bind(c, params[i].name,
                           [k |-> "alloca", id |-> first + i - 1,
                            ty |-> type_map[params[i].value_type]],
                           type_map[params[i].value_type]),
                      params, first, i + 1)

\* Lines 188 and 305: Environment(parent=previous_env) becomes the scope.
NewScope(c) ==
    IF Ok(c) THEN [c EXCEPT !.envs = Append(@, NewEnvironment(c.env)),
                             !.env = Len(c.envs) + 1]
    ELSE c

\* Lines 167-174: the function, its entry block and a builder at it.
NewFunction(c, name, types, ret) ==
    [c EXCEPT !.module = Append(@, [name |-> name, return_type |-> ret,
                                    args |-> types, blocks |-> << >>]),
              !.blocks = Append(@, [parent |-> Len(c.module) + 1, name |-> "entry",
                                    n |-> c.counter, instructions |-> << >>,
                                    is_terminated |-> FALSE]),
              !.module[Len(c.module) + 1].blocks = <<Len(c.blocks) + 1>>,
              !.builder = [block |-> Len(c.blocks) + 1, anchor |-> 0]]

\* A generator that binds the function's name in its own scope only.
DefineInEnclosing_Skipped(c, name, func, ret) == c

\* Line 185: the function's name bound in the enclosing scope.
DefineInEnclosing(c, name, func, ret) == Bind(c, name, func, ret)

\* Lines 184-197
FunctionScope(c, name, params, func, ret, first) ==
    Bind(DefineParams(NewScope(DefineInEnclosing(c, name, func, ret)), params, first, 1),
         name, func, ret)

ParamTypes(params) == [i \in 1..Len(params) |-> type_map[params[i].value_type]]

\* A generator that looks the types up after it made the function.
FunctionStatementEnter_TypesLate(c, name, params, return_type) ==
    IF name \in GlobalNames(c) THEN Raise(c, "DuplicatedNameError")
    ELSE IF \/ \E i \in 1..Len(params) : params[i].value_type \notin DOMAIN type_map
            \/ return_type \notin DOMAIN type_map
         THEN Raise(NewFunction(c, name, << >>, type_map.void), "KeyError")
    ELSE FunctionScope(StoreParams(NewFunction(c, name, ParamTypes(params),
                                               type_map[return_type]),
                                   ParamTypes(params), 1),
                       name, params, FuncVal(Len(c.module) + 1), type_map[return_type],
                       c.nvalues + 1)

\* Lines 154-197 of Compiler.__visit_function_statement
FunctionStatementEnter(c, name, params, return_type) ==
    IF \/ \E i \in 1..Len(params) : params[i].value_type \notin DOMAIN type_map
       \/ return_type \notin DOMAIN type_map
    THEN Raise(c, "KeyError")
    ELSE IF name \in GlobalNames(c) THEN Raise(c, "DuplicatedNameError")
    ELSE FunctionScope(StoreParams(NewFunction(c, name, ParamTypes(params),
                                               type_map[return_type]),
                                   ParamTypes(params), 1),
                       name, params, FuncVal(Len(c.module) + 1), type_map[return_type],
                       c.nvalues + 1)

\* A generator that restores the cursor and keeps the function's scope.
FunctionStatementExit_KeepingScope(c, previous_env, previous_builder) ==
    [c EXCEPT !.builder = previous_builder]

\* Lines 201-204: the scope and the builder of before the declaration.
FunctionStatementExit(c, previous_env, previous_builder) ==
    [c EXCEPT !.env = previous_env, !.builder = previous_builder]

\* The conditional branch to the two blocks made before the last k blocks,
\* and on to the first of them.
BranchOnTest(c, test, k) ==
    PositionAtStart(CBranch(c, test, LastBlock(c) - k - 1, LastBlock(c) - k),
                    LastBlock(c) - k - 1)

\* An if whose body runs when the condition is false.
IfThenEnter_Inverted(c, condition) ==
    PositionAtStart(
        CBranch(AppendBasicBlock(AppendBasicBlock(ResolveValue(c, condition).c,
                                                  "if"), "endif"),
                ResolveValue(c, condition).value,
                LastBlock(ResolveValue(c, condition).c) + 2,
                LastBlock(ResolveValue(c, condition).c) + 1),
        LastBlock(ResolveValue(c, condition).c) + 1)

\* Lines 223-227: an if without else, up to the body (IRBuilder.if_then).
IfThenEnter(c, condition) ==
    BranchOnTest(AppendBasicBlock(AppendBasicBlock(ResolveValue(c, condition).c,
                                                   "if"), "endif"),
                 ResolveValue(c, condition).value, 0)

\* IRBuilder.if_then after the body: fall through to the end block.
IfThenExit(c, bbend) ==
    PositionAtEnd(IF IsTerminated(c) THEN c ELSE Branch(c, bbend), bbend)

\* Lines 231-239
IfElseEnter(c, condition) ==
    BranchOnTest(AppendBasicBlock(AppendBasicBlock(AppendBasicBlock(
                     NextCounter(ResolveValue(c, condition).c),
                     "if_then"), "if_else"), "if_endif"),
                 ResolveValue(c, condition).value, 1)

\* A generator that never branches to the merge block.
FallThrough_Never(c, terminated, endif_block) == c

\* Lines 242-243 and 249-250: an arm that did not terminate jumps to the
\* merge block.
FallThrough(c, terminated, endif_block) ==
    IF terminated THEN c ELSE Branch(c, endif_block)

\* Lines 241-246
IfElseMiddle(c, else_block, endif_block) ==
    PositionAtStart(FallThrough(c, IsTerminated(c), endif_block), else_block)

\* Lines 253-257
Merge(c, then_terminated, else_terminated, endif_block, has_delete) ==
    IF ~then_terminated \/ ~else_terminated
    THEN PositionAtStart(c, endif_block)
    ELSE DeleteBlock(c, endif_block, has_delete)

\* Lines 248-257
IfElseExit(c, then_terminated, endif_block, has_delete) ==
    Merge(FallThrough(c, IsTerminated(c), endif_block),
          then_terminated, IsTerminated(c), endif_block, has_delete)

\* Lines 263-281
WhileEnter(c, condition) ==
    BranchOnTest(AppendBasicBlock(AppendBasicBlock(
                     NextCounter(ResolveValue(c, condition).c),
                     "while_loop_entry"), "while_loop_otherwise"),
                 ResolveValue(c, condition).value, 0)

\* Lines 286-289
WhileExit_Inverted(c, condition, while_loop_entry, while_loop_otherwise) ==
    PositionAtStart(CBranch(ResolveValue(c, condition).c,
                            ResolveValue(c, condition).value,
                            while_loop_otherwise, while_loop_entry),
                    while_loop_otherwise)

WhileExit(c, condition, while_loop_entry, while_loop_otherwise) ==
    PositionAtStart(CBranch(ResolveValue(c, condition).c,
                            ResolveValue(c, condition).value,
                            while_loop_entry, while_loop_otherwise),
                    while_loop_otherwise)

\* A for whose continue target is its exit block.
PushLoop_ContinueToExit(c) ==
    IF ~Ok(c) THEN c
    ELSE PositionAtStart(
             Branch([c EXCEPT !.breakpoints = Append(@, LastBlock(c)),
                              !.continues = Append(@, LastBlock(c))],
                    LastBlock(c) - 1),
             LastBlock(c) - 1)

\* Lines 313-317
PushLoop(c) ==
    IF ~Ok(c) THEN c
    ELSE PositionAtStart(
             Branch([c EXCEPT !.breakpoints = Append(@, LastBlock(c)),
                              !.continues = Append(@, LastBlock(c) - 1)],
                    LastBlock(c) - 1),
             LastBlock(c) - 1)

\* Lines 304-317
ForEnter(c, var_declaration) ==
    PushLoop(AppendBasicBlock(AppendBasicBlock(
                 NextCounter(LetStatement(NewScope(c), var_declaration.name,
                                          var_declaration.value)),
                 "for_loop_entry"), "for_loop_otherwise"))

\* Lines 329-330
PopLoop(c) ==
    IF Ok(c) THEN [c EXCEPT !.breakpoints = SubSeq(@, 1, Len(@) - 1),
                             !.continues = SubSeq(@, 1, Len(@) - 1)]
    ELSE c

\* A for that evaluates its condition before the update statement.
ForExit_TestFirst(c, condition, action, for_loop_entry, for_loop_otherwise) ==
    PopLoop(PositionAtStart(
                CBranch(AssignStatement(ResolveValue(c, condition).c,
                                        action.name, action.value),
                        ResolveValue(c, condition).value,
                        for_loop_entry, for_loop_otherwise),
                for_loop_otherwise))

\* Lines 321-330
ForExit(c, condition, action, for_loop_entry, for_loop_otherwise) ==
    PopLoop(PositionAtStart(
                CBranch(ResolveValue(AssignStatement(c, action.name, action.value),
                                     condition).c,
                        ResolveValue(AssignStatement(c, action.name, action.value),
                                     condition).value,
                        for_loop_entry, for_loop_otherwise),
                for_loop_otherwise))

----------------------------------------------------------------------------
(* The programs compiled: what each position of the AST may hold *)

Variables    == {"x", "f"}
LetValues    == {IntegerLiteral, FloatLiteral}
AssignValues == {IntegerLiteral}
ReturnValues == {IntegerLiteral, IdentifierLiteral("x")}
Conditions   == {BooleanLiteral}
Callees      == {"f"}
Functions    ==
    {[type |-> "FunctionStatement", name |-> "f", parameters |-> << >>,
      return_type |-> "int"],
     [type |-> "FunctionStatement", name |-> "g",
      parameters |-> <<[name |-> "x", value_type |-> "int"]>>,
      return_type |-> "float"]}

----------------------------------------------------------------------------
(* The driver (src/main.py) *)

\* main() has parsed the program and called run_compiler.
Started == [pc |-> "run_compiler", module |-> "unset", executed |-> FALSE,
            errors |-> 0, exit |-> -1]

\* No Environment method has been called from outside the generator.
NoCall == [method |-> "none"]

\* The emitted code has not been run.
NotRun == [pc |-> "none"]

\* A driver that hands the module on whatever the error list holds.
ReturnedModule_Always(errs) == "module"

\* run_compiler, lines 183-191 and 193-215: None when the generator recorded
\* errors, the module otherwise.
ReturnedModule(errs) == IF Len(errs) > 0 THEN "None" ELSE "module"

\* run_compiler after compile() returned: every error goes to the error
\* handler.
RunCompilerReturn(d, errs) ==
    [d EXCEPT !.pc = "main", !.module = ReturnedModule(errs),
              !.errors = @ + Len(errs)]

\* main, lines 304-307: no module, exit code 1.
MainChecksModule(d) ==
    IF d.module = "None" THEN [d EXCEPT !.pc = "exit", !.exit = 1]
    ELSE [d EXCEPT !.pc = "execute_program"]

\* How execute_program may end: not asked to run, an exception of the
\* IR verifier or the JIT (recorded as a runtime error), no main function
\* (recorded), or the value main returned.
Outcomes == {[how |-> "skipped", errors |-> 0, result |-> -1],
             [how |-> "failed", errors |-> 1, result |-> -1],
             [how |-> "no_main", errors |-> 1, result |-> -1],
             [how |-> "ran", errors |-> 0, result |-> 0],
             [how |-> "ran", errors |-> 0, result |-> 1]}

\* main, lines 315-318: 1 if the handler has errors, else the result, 0
\* for None.
ExitCode(d, outcome) ==
    IF d.errors + outcome.errors > 0 THEN 1
    ELSE IF outcome.result = -1 THEN 0 ELSE outcome.result

\* execute_program and the rest of main.
MainExecutes(d, outcome) ==
    [d EXCEPT !.pc = "exit", !.executed = TRUE, !.errors = @ + outcome.errors,
              !.exit = ExitCode(d, outcome)]

----------------------------------------------------------------------------
(* The state machine *)

Init ==
    /\ module = << >>
    /\ blocks = << >>
    /\ builder = [block |-> 0, anchor |-> 0]
    /\ counter = 0
    /\ envs = <<[records |-> ("printf" :> [val |-> PrintfVal, type |-> "i32"])
                              @@ ("true" :> [val |-> TrueVal, type |-> "i1*"])
                              @@ ("false" :> [val |-> FalseVal, type |-> "i1*"]),
                  parent |-> 0, name |-> "global"]>>
    /\ env = 1
    /\ errors = << >>
    /\ breakpoints = << >>
    /\ continues = << >>
    /\ nvalues = 0
    /\ raised = "none"
    /\ stack = <<[k |-> "Program"]>>
    /\ node = [type |-> "Program"]
    /\ fuel = MaxStmts
    /\ driver = Started
    /\ call = NoCall
    /\ program = << >>
    /\ exec = NotRun

Top == stack[Len(stack)]
Pop(st) == SubSeq(st, 1, Len(st) - 1)
BodyOf(frame) == <<frame, [k |-> "BlockStatement"]>>
End(k) == [type |-> "end", of |-> k]

Running == raised = "none" /\ stack # << >>

\* The visitor is in the statement loop of a Program or a BlockStatement
\* (lines 117-118, 145-146) and the loop has a next statement.
AtStatement == Running /\ Top.k \in {"Program", "BlockStatement"} /\ fuel > 0

\* A visit method without a nested compile() ran on node nd.
Simple(c, nd) ==
    /\ Commit(c)
    /\ node' = nd
    /\ fuel' = fuel - 1
    /\ UNCHANGED <<stack, others>>

\* A visit method ran on node nd up to its nested compile(body), which
\* frame waits for.
Enter(c, nd, frame) ==
    /\ Commit(c)
    /\ node' = nd
    /\ fuel' = fuel - 1
    /\ stack' = IF Ok(c) THEN stack \o BodyOf(frame) ELSE stack
    /\ UNCHANGED others

\* The visit method of the top frame ran to its end.
Exit(c) ==
    /\ Commit(c)
    /\ node' = End(Top.k)
    /\ stack' = IF Ok(c) THEN Pop(stack) ELSE stack
    /\ UNCHANGED <<fuel, others>>

\* The frames of the visit methods that compile a body.
EnterFunction(c, nd) ==
    Enter(c, nd, [k |-> "FunctionStatement", name |-> nd.name, func |-> Len(c.module),
                  return_type |-> type_map[nd.return_type],
                  previous_env |-> env, previous_builder |-> builder, env |-> c.env])

EnterIfThen(c, nd) == Enter(c, nd, [k |-> "IfThen", bbend |-> LastBlock(c)])

EnterIfElse(c, nd) ==
    Enter(c, nd, [k |-> "IfElseThen", then_block |-> LastBlock(c) - 2,
                  else_block |-> LastBlock(c) - 1, endif_block |-> LastBlock(c)])

EnterAlternative(c) ==
    /\ Commit(c)
    /\ node' = End(Top.k)
    /\ stack' = IF Ok(c)
                THEN Pop(stack) \o BodyOf([k |-> "IfElseElse",
                                           endif_block |-> Top.endif_block,
                                           then_terminated |-> IsTerminated(Self)])
                ELSE stack
    /\ UNCHANGED <<fuel, others>>

EnterWhile(c, nd) ==
    Enter(c, nd, [k |-> "WhileStatement", condition |-> nd.condition,
                  while_loop_entry |-> LastBlock(c) - 1,
                  while_loop_otherwise |-> LastBlock(c)])

EnterLoop(c, nd) ==
    Enter(c, nd, [k |-> "ForStatement", condition |-> nd.condition, action |-> nd.action,
                  for_loop_entry |-> LastBlock(c) - 1,
                  for_loop_otherwise |-> LastBlock(c),
                  previous_env |-> env])

EnterFor(nd) == EnterLoop(ForEnter(Self, nd.var_declaration), nd)

VisitLet ==
    \E name \in Variables, value \in LetValues :
        /\ AtStatement
        /\ Simple(LetStatement(Self, name, value),
                  [type |-> "LetStatement", name |-> name, value |-> value])

VisitAssign ==
    \E name \in Variables, value \in AssignValues :
        /\ AtStatement
        /\ Simple(AssignStatement(Self, name, value),
                  [type |-> "AssignStatement", name |-> name, value |-> value])

VisitReturn ==
    \E value \in ReturnValues :
        /\ AtStatement
        /\ Simple(ReturnStatement(Self, value),
                  [type |-> "ReturnStatement", value |-> value])

VisitExpressionStatement ==
    \E name \in Callees :
        /\ AtStatement
        /\ Simple(ExpressionStatement(Self, CallExpression(name)),
                  [type |-> "ExpressionStatement", expr |-> CallExpression(name)])

VisitBreak ==
    /\ AtStatement
    /\ Simple(BreakStatement(Self), [type |-> "BreakStatement"])

VisitContinue ==
    /\ AtStatement
    /\ Simple(ContinueStatement(Self), [type |-> "ContinueStatement"])

VisitFunction ==
    \E nd \in Functions :
        /\ AtStatement
        /\ EnterFunction(FunctionStatementEnter(Self, nd.name, nd.parameters,
                                                nd.return_type), nd)

FunctionReturn ==
    /\ Running /\ Top.k = "FunctionStatement"
    /\ Exit(FunctionStatementExit(Self, Top.previous_env, Top.previous_builder))

VisitIfThen ==
    \E condition \in Conditions :
        /\ AtStatement
        /\ EnterIfThen(IfThenEnter(Self, condition),
                       [type |-> "IfStatement", condition |-> condition,
                        alternative |-> FALSE])

IfThenReturn ==
    /\ Running /\ Top.k = "IfThen"
    /\ Exit(IfThenExit(Self, Top.bbend))

VisitIfElse ==
    \E condition \in Conditions :
        /\ AtStatement
        /\ EnterIfElse(IfElseEnter(Self, condition),
                       [type |-> "IfStatement", condition |-> condition,
                        alternative |-> TRUE])

\* The consequence is compiled: on to the alternative.
IfElseAlternative ==
    /\ Running /\ Top.k = "IfElseThen"
    /\ EnterAlternative(IfElseMiddle(Self, Top.else_block, Top.endif_block))

IfElseReturn ==
    \E has_delete \in BOOLEAN :
        /\ Running /\ Top.k = "IfElseElse"
        /\ Exit(IfElseExit(Self, Top.then_terminated, Top.endif_block, has_delete))

VisitWhile ==
    \E condition \in Conditions :
        /\ AtStatement
        /\ EnterWhile(WhileEnter(Self, condition),
                      [type |-> "WhileStatement", condition |-> condition])

WhileReturn ==
    /\ Running /\ Top.k = "WhileStatement"
    /\ Exit(WhileExit(Self, Top.condition, Top.while_loop_entry, Top.while_loop_otherwise))

VisitFor ==
    \E name \in Variables, condition \in Conditions :
        /\ AtStatement
        /\ EnterFor([type |-> "ForStatement",
                     var_declaration |-> [type |-> "LetStatement", name |-> name,
                                          value |-> IntegerLiteral],
                     condition |-> condition,
                     action |-> [type |-> "AssignStatement", name |-> name,
                                 value |-> IntegerLiteral]])

ForReturn ==
    /\ Running /\ Top.k = "ForStatement"
    /\ Exit(ForExit(Self, Top.condition, Top.action, Top.for_loop_entry,
                    Top.for_loop_otherwise))

\* The statement loop of a BlockStatement or of the Program has no next
\* statement.
BlockReturn ==
    /\ Running /\ Top.k \in {"Program", "BlockStatement"}
    /\ Exit(Self)

\* What the driver's steps leave alone.
generator == <<module, blocks, builder, counter, envs, env, errors, breakpoints,
               continues, nvalues, raised, stack, node, fuel, call, program, exec>>

\* compile() returned to run_compiler.  (An exception of compile() is caught
\* nowhere: it leaves run_compiler and main, and the driver takes no step.)
RunCompiler ==
    /\ driver.pc = "run_compiler"
    /\ stack = << >> /\ raised = "none"
    /\ driver' = RunCompilerReturn(driver, errors)
    /\ UNCHANGED generator

MainAfterCompiler ==
    /\ driver.pc = "main"
    /\ driver' = MainChecksModule(driver)
    /\ UNCHANGED generator

ExecuteProgram ==
    \E outcome \in Outcomes :
        /\ driver.pc = "execute_program"
        /\ outcome.how = "ran" => \E i \in 1..Len(module) : module[i].name = "main"
        /\ driver' = MainExecutes(driver, outcome)
        /\ UNCHANGED generator

Next ==
    \/ RunCompiler \/ MainAfterCompiler \/ ExecuteProgram
    \/ VisitLet \/ VisitAssign \/ VisitReturn \/ VisitExpressionStatement
    \/ VisitBreak \/ VisitContinue
    \/ VisitFunction \/ FunctionReturn
    \/ VisitIfThen \/ IfThenReturn
    \/ VisitIfElse \/ IfElseAlternative \/ IfElseReturn
    \/ VisitWhile \/ WhileReturn
    \/ VisitFor \/ ForReturn
    \/ BlockReturn

Spec == Init /\ [][Next]_vars

\* compile() returned.
Compiled == stack = << >> /\ raised = "none"

----------------------------------------------------------------------------
(* The symbol table by itself: scopes are created, and define and lookup   *)
(* are called on them with any arguments, in any order                     *)

\* The number of scopes.
MaxScopes == 3

Names == {"a", "b"}

\* The (value, type) pairs a name is bound to: a is bound to either of two
\* stack slots, b to one.
Bindings(name) ==
    {[val |-> [k |-> "alloca", id |-> 1, ty |-> "i32"], type |-> "i32"]}
      \cup (IF name = "a"
            THEN {[val |-> [k |-> "alloca", id |-> 2, ty |-> "float"], type |-> "float"]}
            ELSE {})

\* Environment(): one scope without parent, nothing bound.
EnvInit ==
    /\ envs = <<NewEnvironment(0)>>
    /\ call = NoCall
    /\ env = 1
    /\ module = << >> /\ blocks = << >> /\ builder = [block |-> 0, anchor |-> 0]
    /\ counter = 0 /\ errors = << >> /\ breakpoints = << >> /\ continues = << >>
    /\ nvalues = 0 /\ raised = "none" /\ stack = << >>
    /\ node = [type |-> "Program"] /\ fuel = 0
    /\ driver = Started /\ program = << >> /\ exec = NotRun

\* What the calls on the symbol table leave alone.
beside == <<module, blocks, builder, counter, env, errors, breakpoints, continues,
            nvalues, raised, stack, node, fuel, driver, program, exec>>

\* Environment(parent=...)
EnvCreate ==
    \E parent \in 1..Len(envs) :
        /\ Len(envs) < MaxScopes
        /\ envs' = Append(envs, NewEnvironment(parent))
        /\ call' = [method |-> "Environment", scope |-> Len(envs) + 1]
        /\ UNCHANGED beside

EnvDefine ==
    \E e \in 1..Len(envs), name \in Names :
      \E b \in Bindings(name) :
        /\ envs' = define(envs, e, name, b.val, b.type)
        /\ call' = [method |-> "define", scope |-> e, name |-> name,
                    value |-> b.val, type |-> b.type,
                    result |-> DefineReturns(name, b.val, b.type)]
        /\ UNCHANGED beside

\* again says that the call before was the same lookup.
EnvLookup ==
    \E e \in 1..Len(envs), name \in Names :
        /\ envs' = AfterLookup(envs, e, name)
        /\ call' = [method |-> "lookup", scope |-> e, name |-> name,
                    result |-> lookup(envs, e, name),
                    again |-> /\ call.method = "lookup"
                              /\ call.scope = e /\ call.name = name]
        /\ UNCHANGED beside

EnvNext == EnvCreate \/ EnvDefine \/ EnvLookup

EnvSpec == EnvInit /\ [][EnvNext]_vars

----------------------------------------------------------------------------
(* Whole programs: compiled statement by statement, handed to the driver   *)
(* and run, one instruction of main at a time                              *)

\* The while loop is started with i from 0 to MaxStart; it runs while
\* i < LoopLimit.  The for loop of the test runs while i < ForLimit and
\* is left, or started again, at i = K for K up to MaxJump.
MaxStart  == 6
LoopLimit == 5
ForLimit  == 10
MaxJump   == 5

\* How many blocks entered, and outcomes of conditional branches, the run
\* remembers: more than a run that ends goes through.
MaxHistory == 2 * (MaxJump + ForLimit) + 4

Main == [type |-> "FunctionStatement", name |-> "main", parameters |-> << >>,
         return_type |-> "int"]

\* sum = sum + i;  and  i = i + 1;
AddToSum == [type |-> "AssignStatement", name |-> "sum",
             value |-> InfixExpression(IdentifierLiteral("sum"), "+",
                                       IdentifierLiteral("i"))]
Increment == [type |-> "AssignStatement", name |-> "i",
              value |-> InfixExpression(IdentifierLiteral("i"), "+",
                                        IntegerLiteralOf(1))]

\* fn main() -> int { let i = start; let sum = 0;
\*                    while i < limit { sum = sum + i; i = i + 1; } return sum; }
\* in the order the visitor meets its nodes; End closes a block.
WhileProgram(start, limit) ==
    <<Main,
      [type |-> "LetStatement", name |-> "i", value |-> IntegerLiteralOf(start)],
      [type |-> "LetStatement", name |-> "sum", value |-> IntegerLiteralOf(0)],
      [type |-> "WhileStatement",
       condition |-> InfixExpression(IdentifierLiteral("i"), "<",
                                     IntegerLiteralOf(limit))],
      AddToSum,
      Increment,
      End("BlockStatement"),
      [type |-> "ReturnStatement", value |-> IdentifierLiteral("sum")],
      End("BlockStatement")>>

\* if i == K { break; }  or  if i == K { continue; }  or nothing
JumpAt(jump, K) ==
    IF jump = "none" THEN << >>
    ELSE <<[type |-> "IfStatement", alternative |-> FALSE,
            condition |-> InfixExpression(IdentifierLiteral("i"), "==",
                                          IntegerLiteralOf(K))],
           [type |-> jump],
           End("BlockStatement")>>

\* fn main() -> int { let sum = 0;
\*                    for (let i = start; i < limit; i = i + 1) {
\*                        if i == K { break; }
\*                        sum = sum + i; }
\*                    return sum; }
ForProgram(start, limit, jump, K) ==
    <<Main,
      [type |-> "LetStatement", name |-> "sum", value |-> IntegerLiteralOf(0)],
      [type |-> "ForStatement",
       var_declaration |-> [type |-> "LetStatement", name |-> "i",
                            value |-> IntegerLiteralOf(start)],
       condition |-> InfixExpression(IdentifierLiteral("i"), "<",
                                     IntegerLiteralOf(limit)),
       action |-> Increment]>>
    \o JumpAt(jump, K)
    \o <<AddToSum,
          End("BlockStatement"),
          [type |-> "ReturnStatement", value |-> IdentifierLiteral("sum")],
          End("BlockStatement")>>

\* fn name(x: value_type) -> return_type { return 0; }, after main or alone
Declaration(value_type, return_type) ==
    <<[type |-> "FunctionStatement", name |-> "h",
       parameters |-> <<[name |-> "x", value_type |-> value_type]>>,
       return_type |-> return_type],
      [type |-> "ReturnStatement", value |-> IntegerLiteral],
      End("BlockStatement")>>

TypeNames == {"int", "float", "long", "string"}

\* fn main() -> int { expr; return 0; }
InfixProgram(expr) ==
    <<Main,
      [type |-> "ExpressionStatement", expr |-> expr],
      [type |-> "ReturnStatement", value |-> IntegerLiteral],
      End("BlockStatement")>>

Operators == {"+", "-", "*", "/", "%", "^", "<", "<=", ">", ">=", "==", "!="}

\* One operand an integer, the other a float.
MixedInfix ==
    {InfixExpression(IntegerLiteralOf(1), operator, FloatLiteral) :
         operator \in Operators}
    \cup {InfixExpression(FloatLiteral, operator, IntegerLiteralOf(1)) :
              operator \in Operators}
    \cup {InfixExpression(InfixExpression(IntegerLiteralOf(1), "+", IntegerLiteralOf(2)),
                          operator, FloatLiteral) : operator \in {"+", "<"}}

SameClassInfixes ==
    {InfixExpression(IntegerLiteralOf(2), "*", IntegerLiteralOf(3)),
     InfixExpression(IntegerLiteralOf(2), "-", IntegerLiteralOf(3)),
     InfixExpression(IntegerLiteralOf(2), "!=", IntegerLiteralOf(3)),
     InfixExpression(IntegerLiteralOf(2), "&&", IntegerLiteralOf(3)),
     InfixExpression(BooleanLiteral, "!=", IntegerLiteralOf(3)),
     InfixExpression(FloatLiteral, "!=", FloatLiteral),
     InfixExpression(FloatLiteral, "<=", FloatLiteral)}

Programs ==
    {WhileProgram(start, LoopLimit) : start \in 0..MaxStart}
    \cup {WhileProgram(0, K) : K \in 1..MaxJump}
    \cup {ForProgram(start, LoopLimit, "none", 0) : start \in 0..MaxStart \cup {ForLimit}}
    \cup {ForProgram(0, ForLimit, jump, K) :
              jump \in {"BreakStatement", "ContinueStatement"}, K \in 1..MaxJump}
    \cup {InfixProgram(expr) : expr \in MixedInfix \cup SameClassInfixes}
    \cup {Declaration(value_type, return_type) :
              value_type \in TypeNames, return_type \in TypeNames}
    \cup {InfixProgram(InfixExpression(IntegerLiteralOf(2), "*", IntegerLiteralOf(3)))
              \o Declaration(value_type, return_type) :
              value_type \in TypeNames, return_type \in TypeNames}

ProgramInit ==
    /\ module = << >>
    /\ blocks = << >>
    /\ builder = [block |-> 0, anchor |-> 0]
    /\ counter = 0
    /\ envs = <<[records |-> ("printf" :> [val |-> PrintfVal, type |-> "i32"])
                              @@ ("true" :> [val |-> TrueVal, type |-> "i1*"])
                              @@ ("false" :> [val |-> FalseVal, type |-> "i1*"]),
                  parent |-> 0, name |-> "global"]>>
    /\ env = 1
    /\ errors = << >>
    /\ breakpoints = << >>
    /\ continues = << >>
    /\ nvalues = 0
    /\ raised = "none"
    /\ stack = <<[k |-> "Program"]>>
    /\ node = [type |-> "Program"]
    /\ program \in Programs
    /\ fuel = Len(program)
    /\ driver = Started
    /\ call = NoCall
    /\ exec = NotRun

\* The node the statement loop is at: fuel counts the nodes still to visit.
Here == program[Len(program) - fuel + 1]

At(type) == AtStatement /\ Here.type = type

CompileFunction ==
    /\ At("FunctionStatement")
    /\ EnterFunction(FunctionStatementEnter(Self, Here.name, Here.parameters,
                                            Here.return_type), Here)

CompileLet ==
    /\ At("LetStatement")
    /\ Simple(LetStatement(Self, Here.name, Here.value), Here)

CompileAssign ==
    /\ At("AssignStatement")
    /\ Simple(AssignStatement(Self, Here.name, Here.value), Here)

CompileReturn ==
    /\ At("ReturnStatement")
    /\ Simple(ReturnStatement(Self, Here.value), Here)

CompileExpressionStatement ==
    /\ At("ExpressionStatement")
    /\ Simple(ExpressionStatement(Self, Here.expr), Here)

CompileWhile ==
    /\ At("WhileStatement")
    /\ EnterWhile(WhileEnter(Self, Here.condition), Here)

CompileFor ==
    /\ At("ForStatement")
    /\ EnterFor(Here)

CompileIfThen ==
    /\ At("IfStatement")
    /\ EnterIfThen(IfThenEnter(Self, Here.condition), Here)

CompileBreak ==
    /\ At("BreakStatement")
    /\ Simple(BreakStatement(Self), Here)

CompileContinue ==
    /\ At("ContinueStatement")
    /\ Simple(ContinueStatement(Self), Here)

\* The statement loop of a block, or of the program, is through.
CompileEnd ==
    /\ Running /\ Top.k \in {"Program", "BlockStatement"}
    /\ IF Top.k = "Program" THEN fuel = 0 ELSE fuel > 0 /\ Here.type = "end"
    /\ Commit(Self)
    /\ node' = End(Top.k)
    /\ stack' = Pop(stack)
    /\ fuel' = IF fuel > 0 THEN fuel - 1 ELSE 0
    /\ UNCHANGED others

\* What the steps of the run leave alone.
compiler == <<module, blocks, builder, counter, envs, env, errors, breakpoints,
              continues, nvalues, raised, stack, node, fuel, call, program>>

\* The instruction the run is at, and the value of an operand.
Current == blocks[exec.block].instructions[exec.ip]
Executing(ops) == exec.pc = "run" /\ Current.op \in ops
ValueOf(x) == IF x.k = "const" THEN x.v ELSE exec.regs[x.id]

\* The instruction is done and has left result, if it has one.
Executed(e) ==
    /\ exec' = [e EXCEPT !.ip = @ + 1]
    /\ UNCHANGED <<compiler, driver>>

\* execute_program looks main up and calls it: the run is at the first
\* instruction of main's first block.  evals lists the outcomes of the
\* conditional branches taken, path the blocks they led to.
CallMain ==
    \E fn \in 1..Len(module) :
        /\ driver.pc = "execute_program" /\ exec.pc = "none"
        /\ module[fn].name = "main"
        /\ exec' = [pc |-> "run", block |-> module[fn].blocks[1], ip |-> 1,
                    mem |-> << >>, regs |-> << >>, evals |-> << >>, path |-> << >>,
                    result |-> 0]
        /\ UNCHANGED <<compiler, driver>>

ExecuteAlloca ==
    /\ Executing({"alloca"})
    /\ Executed(exec)

ExecuteStore ==
    /\ Executing({"store"})
    /\ Executed([exec EXCEPT !.mem = (Current.ptr.id :> ValueOf(Current.value)) @@ @])

ExecuteLoad ==
    /\ Executing({"load"})
    /\ Executed([exec EXCEPT !.regs = (Current.id :> exec.mem[Current.ptr.id]) @@ @])

\* The numbers of the programs run are of one or two digits: no result
\* leaves the 32 bits of an i32.
ArithmeticResult(op, a, b) ==
    CASE op = "add" -> a + b
      [] op = "sub" -> a - b
      [] op = "mul" -> a * b

ExecuteBinary ==
    /\ Executing({"add", "sub", "mul"})
    /\ Executed([exec EXCEPT !.regs = (Current.id :> ArithmeticResult(
                                           Current.op, ValueOf(Current.lhs),
                                           ValueOf(Current.rhs))) @@ @])

ComparisonResult(cmp, a, b) ==
    CASE cmp = "<"  -> IF a < b THEN 1 ELSE 0
      [] cmp = "<=" -> IF a <= b THEN 1 ELSE 0
      [] cmp = ">"  -> IF a > b THEN 1 ELSE 0
      [] cmp = ">=" -> IF a >= b THEN 1 ELSE 0
      [] cmp = "==" -> IF a = b THEN 1 ELSE 0

ExecuteCompare ==
    /\ Executing({"icmp", "fcmp"})
    /\ Executed([exec EXCEPT !.regs = (Current.id :> ComparisonResult(
                                           Current.cmp, ValueOf(Current.lhs),
                                           ValueOf(Current.rhs))) @@ @])

\* The block a conditional branch leads to.
Taken(instr) == IF ValueOf(instr.cond) # 0 THEN instr.truebr ELSE instr.falsebr

\* The history with x at its end; of a history of MaxHistory entries the
\* oldest is forgotten.
Remember(history, x) ==
    IF Len(history) < MaxHistory THEN Append(history, x)
    ELSE Append(Tail(history), x)

ExecuteCBranch ==
    /\ Executing({"cbranch"})
    /\ exec' = [exec EXCEPT !.block = Taken(Current), !.ip = 1,
                            !.evals = Remember(@, ValueOf(Current.cond) # 0),
                            !.path = Remember(@, Taken(Current))]
    /\ UNCHANGED <<compiler, driver>>

ExecuteBranch ==
    /\ Executing({"br"})
    /\ exec' = [exec EXCEPT !.block = Current.target, !.ip = 1,
                            !.path = Remember(@, Current.target)]
    /\ UNCHANGED <<compiler, driver>>

\* main returns to execute_program, and main() of the driver to its end.
ExecuteRet ==
    /\ Executing({"ret"})
    /\ exec' = [exec EXCEPT !.pc = "done", !.result = ValueOf(Current.value)]
    /\ driver' = MainExecutes(driver, [how |-> "ran", errors |-> 0,
                                       result |-> ValueOf(Current.value)])
    /\ UNCHANGED compiler

ProgramNext ==
    \/ CompileFunction \/ CompileLet \/ CompileAssign \/ CompileReturn
    \/ CompileExpressionStatement \/ CompileWhile \/ CompileEnd
    \/ CompileFor \/ CompileIfThen \/ CompileBreak \/ CompileContinue
    \/ FunctionReturn \/ WhileReturn \/ ForReturn \/ IfThenReturn
    \/ RunCompiler \/ MainAfterCompiler
    \/ CallMain
    \/ ExecuteAlloca \/ ExecuteStore \/ ExecuteLoad \/ ExecuteBinary
    \/ ExecuteCompare \/ ExecuteCBranch \/ ExecuteBranch \/ ExecuteRet

ProgramSpec == ProgramInit /\ [][ProgramNext]_vars

\* A step of the run of main.
Execute ==
    \/ ExecuteAlloca \/ ExecuteStore \/ ExecuteLoad \/ ExecuteBinary
    \/ ExecuteCompare \/ ExecuteCBranch \/ ExecuteBranch \/ ExecuteRet

\* The machine does not stop in the middle of main: while there is an
\* instruction to execute, one is executed.
ProgramLiveSpec == ProgramSpec /\ WF_vars(Execute)

----------------------------------------------------------------------------
(* Programs with string literals, printf calls and powers, among if/else,  *)
(* while and for statements                                                *)

\* The number of statement nodes of a program of TextSpec.
MaxTexts == 4

\* The expression statements drawn: calls of printf and powers.
Texts ==
    {CallWith("printf", <<StringLiteral(<<"a">>)>>),
     CallWith("printf", <<StringLiteral(<<"%", "s">>), StringLiteral(<<"x">>)>>),
     CallWith("printf", <<StringLiteral(<<"%", "i">>), IntegerLiteral>>),
     CallWith("printf", <<IdentifierLiteral("x")>>),
     InfixExpression(IntegerLiteralOf(2), "^", IntegerLiteralOf(3)),
     InfixExpression(FloatLiteral, "^", FloatLiteral)}

TextInit ==
    /\ module = << >>
    /\ blocks = << >>
    /\ builder = [block |-> 0, anchor |-> 0]
    /\ counter = 0
    /\ envs = <<[records |-> ("printf" :> [val |-> PrintfVal, type |-> "i32"])
                              @@ ("true" :> [val |-> TrueVal, type |-> "i1*"])
                              @@ ("false" :> [val |-> FalseVal, type |-> "i1*"]),
                  parent |-> 0, name |-> "global"]>>
    /\ env = 1
    /\ errors = << >>
    /\ breakpoints = << >>
    /\ continues = << >>
    /\ nvalues = 0
    /\ raised = "none"
    /\ stack = <<[k |-> "Program"]>>
    /\ node = [type |-> "Program"]
    /\ fuel = MaxTexts
    /\ driver = Started
    /\ call = NoCall
    /\ program = << >>
    /\ exec = NotRun

\* An expression statement with a printf call or a power.
VisitText ==
    \E expr \in Texts :
        /\ AtStatement
        /\ Simple(ExpressionStatement(Self, expr),
                  [type |-> "ExpressionStatement", expr |-> expr])

\* let x: str = "a";
VisitLetText ==
    /\ AtStatement
    /\ Simple(LetStatement(Self, "x", StringLiteral(<<"a">>)),
              [type |-> "LetStatement", name |-> "x",
               value |-> StringLiteral(<<"a">>)])

TextNext ==
    \/ VisitText \/ VisitLetText
    \/ VisitFunction \/ FunctionReturn
    \/ VisitIfElse \/ IfElseAlternative \/ IfElseReturn
    \/ VisitWhile \/ WhileReturn
    \/ VisitFor \/ ForReturn
    \/ BlockReturn

TextSpec == TextInit /\ [][TextNext]_vars

----------------------------------------------------------------------------
(* The conversion of one string literal, for every text of up to MaxLen    *)
(* characters                                                              *)

\* The number of characters of the longest text converted.
MaxLen == 4

\* A letter, and the two characters of the newline escape.
Characters == {"a", "\\", "n"}

Strings == UNION {[1..n -> Characters] : n \in 0..MaxLen}

ConvertInit ==
    /\ module = << >>
    /\ blocks = << >>
    /\ builder = [block |-> 0, anchor |-> 0]
    /\ counter = 0
    /\ envs = <<[records |-> ("printf" :> [val |-> PrintfVal, type |-> "i32"])
                              @@ ("true" :> [val |-> TrueVal, type |-> "i1*"])
                              @@ ("false" :> [val |-> FalseVal, type |-> "i1*"]),
                  parent |-> 0, name |-> "global"]>>
    /\ env = 1
    /\ errors = << >>
    /\ breakpoints = << >>
    /\ continues = << >>
    /\ nvalues = 0
    /\ raised = "none"
    /\ stack = <<[k |-> "Program"]>>
    /\ node \in {StringLiteral(string) : string \in Strings}
    /\ fuel = 1
    /\ driver = Started
    /\ call = NoCall
    /\ program = << >>
    /\ exec = NotRun

\* __resolve_value on the string literal.
ResolveString ==
    /\ fuel = 1
    /\ Commit(ResolveValue(Self, node).c)
    /\ fuel' = 0
    /\ UNCHANGED <<node, stack, others>>

ConvertSpec == ConvertInit /\ [][ResolveString]_vars

----------------------------------------------------------------------------
(* What the claims speak of *)

Last(s) == s[Len(s)]

\* Whether block b is in the block list of its function.
InFunction(m, bs, b) ==
    \E i \in 1..Len(m[bs[b].parent].blocks) : m[bs[b].parent].blocks[i] = b

IsTerminator(i) == i.op \in {"ret", "br", "cbranch"}

Targets(i) ==
    IF i.op = "br" THEN {i.target}
    ELSE IF i.op = "cbranch" THEN {i.truebr, i.falsebr}
    ELSE {}

\* The blocks that hold a branch to block b.
Predecessors(bs, b) ==
    {p \in 1..Len(bs) :
        \E j \in 1..Len(bs[p].instructions) : b \in Targets(bs[p].instructions[j])}

\* Exactly one terminator, and it is the last instruction.
WellTerminated(blk) ==
    /\ Cardinality({j \in 1..Len(blk.instructions) : IsTerminator(blk.instructions[j])}) = 1
    /\ IsTerminator(Last(blk.instructions))

\* The instructions a step added at the end of block b.
Added(bs, bs2, b) ==
    SubSeq(bs2[b].instructions, Len(bs[b].instructions) + 1, Len(bs2[b].instructions))

\* A step that changed no block but b, and b only by what it added.
OnlyAddedTo(bs, bs2, b) ==
    /\ Len(bs2) = Len(bs)
    /\ \A k \in 1..Len(bs) : k # b => bs2[k] = bs[k]
    /\ SubSeq(bs2[b].instructions, 1, Len(bs[b].instructions)) = bs[b].instructions

\* The frames of the functions being compiled, and the innermost of them.
FunctionFrames == {i \in 1..Len(stack) : stack[i].k = "FunctionStatement"}
Innermost(S) == CHOOSE i \in S : \A j \in S : j <= i

\* The loops that enclose the statement being compiled, within its function.
LoopFrames ==
    {i \in 1..Len(stack) :
        /\ stack[i].k \in {"WhileStatement", "ForStatement"}
        /\ \A j \in FunctionFrames : j < i}

ExitBlock(frame) ==
    IF frame.k = "WhileStatement" THEN frame.while_loop_otherwise
    ELSE frame.for_loop_otherwise

ForFrames == SelectSeq(stack, LAMBDA frame : frame.k = "ForStatement")

\* The steps in which a visit method that waited for its body ends.
Returns(k) == Running /\ Top.k = k /\ raised' = "none" /\ stack' # stack

\* The steps in which a statement of the given type is visited.
Visits(type) == AtStatement /\ fuel' = fuel - 1 /\ node'.type = type

----------------------------------------------------------------------------
(* C1 *)

\* C1: when compile() has returned without an exception and without a
\* recorded error, every block of every function holds exactly one
\* terminator, and it is the block's last instruction.
C1_EveryBlockEndsInItsOnlyTerminator ==
    (Compiled /\ errors = << >>) =>
        \A f \in 1..Len(module) : \A i \in 1..Len(module[f].blocks) :
            WellTerminated(blocks[module[f].blocks[i]])

----------------------------------------------------------------------------
(* C2 *)

\* C2: when the else arm of an if/else has been compiled and both arms are
\* terminated, the visit ends without an exception, the merge block is no
\* longer in the function, no block branches to it, and the cursor stays
\* where the else arm left it, in a terminated block.
C2_MergeBlockDeleted ==
    [][(Running /\ Top.k = "IfElseElse" /\ Top.then_terminated /\ IsTerminated(Self)) =>
          /\ raised' = "none"
          /\ ~InFunction(module', blocks', Top.endif_block)
          /\ Predecessors(blocks', Top.endif_block) = {}
          /\ builder' = builder
          /\ blocks'[builder'.block].is_terminated]_vars

----------------------------------------------------------------------------
(* C3 *)

BranchTo(b) == [op |-> "br", target |-> b]

\* What the end of an arm, with the cursor in block b, does about the merge
\* block e: a terminated arm is left alone, another gets a branch to e as
\* its last instruction.
ArmClosed(b, e) ==
    /\ OnlyAddedTo(blocks, blocks', b)
    /\ Added(blocks, blocks', b) =
          IF blocks[b].is_terminated THEN << >> ELSE <<BranchTo(e)>>
    /\ Last(blocks'[b].instructions) = BranchTo(e) <=> ~blocks[b].is_terminated

\* C3: when an if/else ends with an arm that did not terminate, its merge
\* block is once in the function, the arms that fell through (judged on the
\* block the cursor was in) end in a branch to it and are its only
\* predecessors, and the cursor is at the start of the merge block.
C3_MergeBlockKept ==
    [][/\ Returns("IfElseThen") =>
            /\ ArmClosed(builder.block, Top.endif_block)
            /\ Predecessors(blocks', Top.endif_block) =
                  IF IsTerminated(Self) THEN {} ELSE {builder.block}
       /\ (Returns("IfElseElse") /\ ~(Top.then_terminated /\ IsTerminated(Self))) =>
            /\ ArmClosed(builder.block, Top.endif_block)
            /\ Top.then_terminated <=> Predecessors(blocks, Top.endif_block) = {}
            /\ Predecessors(blocks', Top.endif_block) =
                  Predecessors(blocks, Top.endif_block)
                    \cup (IF IsTerminated(Self) THEN {} ELSE {builder.block})
            /\ \A p \in Predecessors(blocks', Top.endif_block) :
                  Last(blocks'[p].instructions) = BranchTo(Top.endif_block)
            /\ Cardinality({i \in 1..Len(module'[blocks[Top.endif_block].parent].blocks) :
                  module'[blocks[Top.endif_block].parent].blocks[i] = Top.endif_block}) = 1
            /\ builder' = [block |-> Top.endif_block, anchor |-> 0]]_vars

\* One arm returned, the other fell through.
C3_Witness ==
    /\ raised = "none"
    /\ node = End("IfElseElse")
    /\ blocks[builder.block].name = "if_endif"
    /\ InFunction(module, blocks, builder.block)
    /\ Cardinality(Predecessors(blocks, builder.block)) = 1
    /\ \E b \in 1..Len(blocks) :
          /\ blocks[b].name \in {"if_then", "if_else"}
          /\ blocks[b].n = blocks[builder.block].n
          /\ Last(blocks[b].instructions).op = "ret"

----------------------------------------------------------------------------
(* C4 *)

\* C4: a break visited inside a loop body, in a block that is still open,
\* does not raise and emits a branch to the exit block of the innermost
\* loop statement, for or while, that encloses it.
C4_BreakLeavesInnermostLoop ==
    (node.type = "BreakStatement" /\ LoopFrames # {}) =>
        \/ raised = "AssertionError"
        \/ /\ raised = "none"
           /\ Last(blocks[builder.block].instructions) =
                 BranchTo(ExitBlock(stack[Innermost(LoopFrames)]))

----------------------------------------------------------------------------
(* C5 *)

\* C5: the break stack and the continue stack hold exactly the targets of
\* the for statements being compiled, innermost last, so that each for
\* statement leaves them as it found them and both are empty when
\* compile() has been left, by a return or by an exception.
C5_LoopStacksBalanced ==
    /\ Len(breakpoints) = (IF raised = "none" THEN Len(ForFrames) ELSE 0)
    /\ Len(continues) = Len(breakpoints)
    /\ \A i \in 1..Len(breakpoints) :
          /\ breakpoints[i] = ForFrames[i].for_loop_otherwise
          /\ continues[i] = ForFrames[i].for_loop_entry

----------------------------------------------------------------------------
(* C6 *)

\* C6: when a for statement has been compiled, the active scope is again
\* the scope that was active before the loop.
C6_ForRestoresScope ==
    [][Returns("ForStatement") => env' = Top.previous_env]_vars

----------------------------------------------------------------------------
(* C7 *)

Binding(frame) == [val |-> FuncVal(frame.func), type |-> frame.return_type]

\* C7: while the body of a function is compiled, the scope that encloses
\* the declaration binds the function's name to the function and its
\* return type, a lookup of the name from the body's scope returns that
\* binding, and so does a lookup from the active scope of the innermost
\* function being compiled.
C7_FunctionBoundBeforeBody ==
    \A i \in FunctionFrames :
        /\ stack[i].name \in DOMAIN envs[stack[i].previous_env].records
        /\ envs[stack[i].previous_env].records[stack[i].name] = Binding(stack[i])
        /\ envs[stack[i].env].parent = stack[i].previous_env
        /\ lookup(envs, stack[i].env, stack[i].name) = Binding(stack[i])
        /\ i = Innermost(FunctionFrames) =>
              lookup(envs, env, stack[i].name) = Binding(stack[i])

\* A recursive call: the body of f calls f.
C7_Witness ==
    /\ raised = "none"
    /\ node.type = "ExpressionStatement"
    /\ FunctionFrames # {}
    /\ stack[Innermost(FunctionFrames)].name = node.expr.value
    /\ Last(blocks[builder.block].instructions).op = "call"
    /\ Last(blocks[builder.block].instructions).func =
          FuncVal(stack[Innermost(FunctionFrames)].func)
    /\ blocks[builder.block].parent = stack[Innermost(FunctionFrames)].func

----------------------------------------------------------------------------
(* C8 *)

\* C8: the end of a function declaration restores the scope and the cursor
\* that were active before it and changes no scope and no block; while the
\* declaration is being compiled no step changes the enclosing scope or
\* the block of the saved cursor; and the declaration's first part changes
\* the enclosing scope by the binding of the function's name alone and no
\* other scope that existed.
C8_FunctionRestoresScopeAndCursor ==
    [][/\ Returns("FunctionStatement") =>
            /\ env' = Top.previous_env
            /\ builder' = Top.previous_builder
            /\ envs' = envs
            /\ blocks' = blocks
       /\ \A i \in FunctionFrames :
            /\ envs'[stack[i].previous_env] = envs[stack[i].previous_env]
            /\ stack[i].previous_builder.block # 0 =>
                  blocks'[stack[i].previous_builder.block] =
                      blocks[stack[i].previous_builder.block]
       /\ (Visits("FunctionStatement") /\ raised' = "none") =>
            /\ envs'[env].parent = envs[env].parent
            /\ DOMAIN envs'[env].records = DOMAIN envs[env].records \cup {node'.name}
            /\ envs'[env].records[node'.name] =
                  [val |-> FuncVal(Len(module')), type |-> type_map[node'.return_type]]
            /\ \A n \in DOMAIN envs[env].records \ {node'.name} :
                  envs'[env].records[n] = envs[env].records[n]
            /\ \A e \in 1..Len(envs) : e # env => envs'[e] = envs[e]
            /\ builder.block # 0 => blocks'[builder.block] = blocks[builder.block]]_vars

\* g(x) has been declared inside a function, with statements in its body:
\* the scope and the cursor are the enclosing function's again, and x is
\* not bound there.
C8_Witness ==
    /\ raised = "none"
    /\ node = End("FunctionStatement")
    /\ Len(module) >= 2
    /\ module[Len(module)].name = "g"
    /\ Len(blocks[module[Len(module)].blocks[1]].instructions) > 2
    /\ FunctionFrames # {}
    /\ env = stack[Innermost(FunctionFrames)].env
    /\ builder.block # 0
    /\ blocks[builder.block].parent = stack[Innermost(FunctionFrames)].func
    /\ "g" \in DOMAIN envs[env].records
    /\ "x" \notin DOMAIN envs[env].records

----------------------------------------------------------------------------
(* C9 *)

\* The type and the value a let's literal resolves to.
TypeOf(value) == IF value.type = "IntegerLiteral" THEN "i32" ELSE "float"

----------------------------------------------------------------------------
(* C10 *)

\* C10: an assignment to a name that does not resolve appends one entry to
\* the error list, changes no block, no scope and no cursor, does not
\* raise, and leaves the visitor in the statement loop it was in.
C10_UnresolvedAssignRecordsError ==
    [][(Visits("AssignStatement") /\ lookup(envs, env, node'.name) = None) =>
          /\ errors' = Append(errors, ErrorMessage(node'.name))
          /\ blocks' = blocks
          /\ envs' = envs
          /\ env' = env
          /\ builder' = builder
          /\ raised' = "none"
          /\ stack' = stack]_vars

\* A statement compiled after the error was recorded.
C10_Witness ==
    /\ raised = "none"
    /\ Len(errors) = 1
    /\ node.type = "ReturnStatement"
    /\ builder.block # 0
    /\ Last(blocks[builder.block].instructions).op = "ret"
    /\ \A b \in 1..Len(blocks) : \A j \in 1..Len(blocks[b].instructions) :
          blocks[b].instructions[j].op # "store"

----------------------------------------------------------------------------
(* C11 *)

\* C11: when compile() has returned with a non-empty error list and
\* run_compiler has returned, it returned no module, execute_program has
\* not been invoked and is not about to be, and main, once it has
\* returned, returned 1.
C11_ErrorsSuppressExecution ==
    (Compiled /\ Len(errors) > 0 /\ driver.pc # "run_compiler") =>
        /\ driver.module = "None"
        /\ ~driver.executed
        /\ driver.pc \in {"main", "exit"}
        /\ driver.pc = "exit" => driver.exit = 1

C11_Witness ==
    /\ Compiled
    /\ Len(errors) > 0
    /\ driver.pc = "exit"
    /\ driver.exit = 1
    /\ driver.module = "None"
    /\ Len(module) > 0

----------------------------------------------------------------------------
(* C12 *)

\* C12: a break visited while the break stack is empty, and a continue
\* visited while the continue stack is empty, raises IndexError, emits
\* nothing, moves no cursor and records no error; and the generator takes
\* no step after an exception, so that generation ends at that statement.
C12_BreakOutsideLoopAborts ==
    [][/\ raised = "none"
       /\ (\/ Visits("BreakStatement") /\ breakpoints = << >>
           \/ Visits("ContinueStatement") /\ continues = << >>) =>
             /\ raised' = "IndexError"
             /\ blocks' = blocks
             /\ builder' = builder
             /\ errors' = errors
             /\ stack' = stack]_vars

\* A break in a function body, in an open block, with no loop around it.
C12_Witness ==
    /\ raised = "IndexError"
    /\ node.type = "BreakStatement"
    /\ breakpoints = << >>
    /\ LoopFrames = {}
    /\ builder.block # 0
    /\ ~blocks[builder.block].is_terminated

----------------------------------------------------------------------------
(* C13 *)

\* C13: a call statement whose callee, not printf, does not resolve raises
\* nothing, adds one entry to the error list, emits no instruction and
\* leaves the visitor in its statement loop.
C13_UnresolvedCallRecordsError ==
    [][(/\ Visits("ExpressionStatement")
        /\ node'.expr.type = "CallExpression"
        /\ node'.expr.value # "printf"
        /\ lookup(envs, env, node'.expr.value) = None) =>
          /\ raised' = "none"
          /\ Len(errors') = Len(errors) + 1
          /\ blocks' = blocks
          /\ stack' = stack]_vars

----------------------------------------------------------------------------
(* C14 *)

\* One type is of the integers, the other of the floats.
MixedTypes(l, r) ==
    \/ IsIntType(l) /\ IsFloatType(r)
    \/ IsFloatType(l) /\ IsIntType(r)

\* The operands of infix expression e, as they resolve for compiler c.
MixedOperands(c, e) ==
    /\ e.type = "InfixExpression"
    /\ MixedTypes(ResolveValue(c, e.left_node).Type,
                  ResolveValue(c, e.right_node).Type)

\* C14: the lowering of an infix expression with one integer-typed and one
\* float-typed operand, whatever its operator, ends with an exception or
\* with a new entry in the error list.
C14_MixedInfixRejected ==
    [][(/\ Visits("ExpressionStatement")
        /\ MixedOperands(Self, node'.expr)) =>
          \/ raised' # "none"
          \/ errors' # errors]_vars

----------------------------------------------------------------------------
(* C15 *)

\* The scopes from e up to the root, e first.
RECURSIVE Chain(_, _)
Chain(es, e) == IF es[e].parent = 0 THEN <<e>> ELSE <<e>> \o Chain(es, es[e].parent)

\* The places of Chain(es, e) whose scope binds name.
Binders(es, e, name) ==
    {i \in 1..Len(Chain(es, e)) : name \in DOMAIN es[Chain(es, e)[i]].records}

\* The scope nearest to e, e included, that binds name.
Nearest(es, e, name) ==
    Chain(es, e)[CHOOSE i \in Binders(es, e, name) :
                    \A j \in Binders(es, e, name) : i <= j]

\* Whether s is the first scope on the way from d to the root that binds
\* name.
RECURSIVE FirstBinder(_, _, _, _)
FirstBinder(es, d, name, s) ==
    IF name \in DOMAIN es[d].records THEN d = s
    ELSE es[d].parent # 0 /\ FirstBinder(es, es[d].parent, name, s)

\* C15: define(n, v, t) on scope s returns v; a lookup of n on s right
\* after it returns (v, t), whatever s or its ancestors bound before; and
\* so does a lookup from every descendant of s with no binding of n
\* between it and s.
C15_DefineThenLookup ==
    [][call'.method = "define" =>
          /\ call'.result = call'.value
          /\ lookup(envs', call'.scope, call'.name) =
                [val |-> call'.value, type |-> call'.type]
          /\ \A d \in 1..Len(envs') :
                FirstBinder(envs', d, call'.name, call'.scope) =>
                    lookup(envs', d, call'.name) =
                        [val |-> call'.value, type |-> call'.type]]_vars

\* A define on a scope whose parent binds the name to something else and
\* which has a child that does not bind it.
C15_Witness ==
    /\ call.method = "define"
    /\ envs[call.scope].parent # 0
    /\ call.name \in DOMAIN envs[envs[call.scope].parent].records
    /\ envs[envs[call.scope].parent].records[call.name].val # call.value
    /\ \E d \in 1..Len(envs) :
          /\ envs[d].parent = call.scope
          /\ call.name \notin DOMAIN envs[d].records
          /\ lookup(envs, d, call.name).val = call.value

----------------------------------------------------------------------------
(* C16 *)

\* C16: a lookup of a name from a scope that does not bind it, while an
\* ancestor does, returns the binding of the nearest ancestor that binds
\* it.
C16_NearestAncestorWins ==
    [][(/\ call'.method = "lookup"
        /\ call'.name \notin DOMAIN envs[call'.scope].records
        /\ Binders(envs, call'.scope, call'.name) # {}) =>
          call'.result =
              envs[Nearest(envs, call'.scope, call'.name)].records[call'.name]]_vars

\* Two ancestors bind the name differently and the closer one was returned.
C16_Witness ==
    /\ call.method = "lookup"
    /\ call.name \notin DOMAIN envs[call.scope].records
    /\ Cardinality(Binders(envs, call.scope, call.name)) = 2
    /\ \E i \in Binders(envs, call.scope, call.name) :
          envs[Chain(envs, call.scope)[i]].records[call.name] # call.result
    /\ call.result = envs[envs[call.scope].parent].records[call.name]

----------------------------------------------------------------------------
(* C17 *)

\* C17: lookup returns None when no scope from the one it is called on to
\* the root binds the name, and only then; and it raises nothing.
C17_NotFoundIffUnbound ==
    [][call'.method = "lookup" =>
          /\ call'.result = None <=> Binders(envs, call'.scope, call'.name) = {}
          /\ raised' = "none"]_vars

\* None from a scope two levels below the root, with the other name bound
\* on the chain.
C17_Witness ==
    /\ call.method = "lookup"
    /\ call.result = None
    /\ Len(Chain(envs, call.scope)) = 3
    /\ \E n \in Names : Binders(envs, call.scope, n) # {}

----------------------------------------------------------------------------
(* C18 *)

\* C18: a lookup changes no scope, neither its bindings nor its parent nor
\* its name, and a lookup that repeats the call before it returns what
\* that call returned.
C18_LookupIsPure ==
    [][call'.method = "lookup" =>
          /\ envs' = envs
          /\ call'.again => call'.result = call.result]_vars

\* A repeated lookup that found the name in an ancestor.
C18_Witness ==
    /\ call.method = "lookup"
    /\ call.again
    /\ call.result # None
    /\ call.name \notin DOMAIN envs[call.scope].records

----------------------------------------------------------------------------
(* C19 *)

\* C19: define(n, v, t) on scope s creates no scope, changes no parent and
\* no name of a scope, and leaves every binding but that of n in s as it
\* was, bound or unbound.
C19_DefineChangesOneBinding ==
    [][call'.method = "define" =>
          /\ Len(envs') = Len(envs)
          /\ \A e \in 1..Len(envs) :
                /\ envs'[e].parent = envs[e].parent
                /\ envs'[e].name = envs[e].name
                /\ \A n \in Names :
                      (e # call'.scope \/ n # call'.name) =>
                          /\ n \in DOMAIN envs'[e].records <=> n \in DOMAIN envs[e].records
                          /\ n \in DOMAIN envs[e].records =>
                                envs'[e].records[n] = envs[e].records[n]]_vars

\* A define of a name that the parent binds to something else, on a scope
\* that binds the other name.
C19_Witness ==
    /\ call.method = "define"
    /\ envs[call.scope].parent # 0
    /\ call.name \in DOMAIN envs[envs[call.scope].parent].records
    /\ envs[envs[call.scope].parent].records[call.name].val # call.value
    /\ DOMAIN envs[call.scope].records = Names

----------------------------------------------------------------------------
(* C20 *)

\* The program run is the one with the while loop, started with i = Start.
Loops ==
    /\ Len(program) > 4 /\ program[4].type = "WhileStatement"
    /\ program[4].condition.right_node.n = LoopLimit
Start == program[2].value.n

\* The blocks of the loop: its body and its exit.
LoopBody == CHOOSE b \in 1..Len(blocks) : blocks[b].name = "while_loop_entry"
LoopExit == CHOOSE b \in 1..Len(blocks) : blocks[b].name = "while_loop_otherwise"

\* How many times the body was entered.
Iterations == Cardinality({j \in 1..Len(exec.path) : exec.path[j] = LoopBody})

\* What the slot of a variable of main holds.
Stored(name) ==
    exec.mem[envs[CHOOSE e \in 1..Len(envs) : name \in DOMAIN envs[e].records]
                 .records[name].val.id]

\* The sum of the numbers from a to b - 1.
RECURSIVE SumFrom(_, _)
SumFrom(a, b) == IF a >= b THEN 0 ELSE a + SumFrom(a + 1, b)

\* The run so far: the j-th evaluation of the condition is that of
\* i < 5 with i = Start + j - 1, the body is entered after a true one
\* and the exit after a false one, by no other way, and nothing is evaluated
\* after a false one.
LoopRunsByCondition ==
    /\ Len(exec.path) = Len(exec.evals)
    /\ \A j \in 1..Len(exec.evals) :
           /\ exec.evals[j] = (Start + j - 1 < LoopLimit)
           /\ exec.path[j] = IF exec.evals[j] THEN LoopBody ELSE LoopExit
           /\ j < Len(exec.evals) => exec.evals[j]
    /\ exec.block \in {LoopBody, LoopExit} => exec.block = Last(exec.path)
    /\ exec.evals = << >> => exec.block \notin {LoopBody, LoopExit}

\* The run is over: one evaluation more than iterations, as many iterations
\* as numbers from Start to 4, and their sum in sum and returned.
LoopRan ==
    /\ exec.block = LoopExit
    /\ Len(exec.evals) = Iterations + 1
    /\ Iterations = (IF Start < LoopLimit THEN LoopLimit - Start ELSE 0)
    /\ Stored("sum") = SumFrom(Start, LoopLimit)
    /\ exec.result = Stored("sum")
    /\ Start = 0 => Iterations = 5 /\ Stored("sum") = 10 /\ driver.exit = 10

\* C20: run, the code of while i < 5 { sum = sum + i; i = i + 1; }
\* evaluates the condition before the first iteration and after every
\* one, enters the body only after a true evaluation and the exit block at
\* the first false one, and the run of main ends: after no iteration when the
\* condition is false at first, after 5 with sum = 10 from i = 0, sum = 0.
C20_WhileRunsWhileConditionHolds ==
    /\ [](Loops /\ exec.pc \in {"run", "done"} => LoopRunsByCondition)
    /\ [](Loops /\ exec.pc = "done" => LoopRan)
    /\ (Loops /\ exec.pc = "run" ~> exec.pc = "done")

C20_Witness ==
    /\ Loops /\ Start = 0
    /\ exec.pc = "done"
    /\ Iterations = 5
    /\ exec.result = 10

----------------------------------------------------------------------------
(* C21 *)

\* The program run is the one with the for loop; what its header and the
\* if of its body say.
Fors == Len(program) > 3 /\ program[3].type = "ForStatement"
ForStart == program[3].var_declaration.value.n
ForEnd   == program[3].condition.right_node.n
Jump  == IF program[4].type = "IfStatement" THEN program[5].type ELSE "none"
JumpK == program[4].condition.right_node.n

\* The blocks of the for loop: its body and its exit.
ForBody == CHOOSE b \in 1..Len(blocks) : blocks[b].name = "for_loop_entry"
ForOtherwise == CHOOSE b \in 1..Len(blocks) : blocks[b].name = "for_loop_otherwise"

\* The program run is the while loop started with i = 0; its limit.
WhileFromZero ==
    /\ Len(program) > 4 /\ program[4].type = "WhileStatement"
    /\ program[2].value.n = 0
WhileEnd == program[4].condition.right_node.n

\* C21: the run of for (let i = 0; i < N; i = i + 1) { if i == K { break; }
\* sum = sum + i; } with 0 < K < N ends, at the loop's exit block, with
\* sum = 0 + ... + (K - 1), and so does the run of while i < K
\* { sum = sum + i; i = i + 1; } from i = 0; N = 10 and K = 5 give 10.
C21_ForWithBreakSumsAsWhile ==
    /\ [](Fors /\ Jump = "BreakStatement" /\ exec.pc = "done" =>
            /\ exec.block = ForOtherwise
            /\ Stored("sum") = SumFrom(0, JumpK)
            /\ exec.result = Stored("sum")
            /\ (ForEnd = 10 /\ JumpK = 5 => exec.result = 10))
    /\ [](WhileFromZero /\ exec.pc = "done" =>
            /\ Stored("sum") = SumFrom(0, WhileEnd)
            /\ exec.result = Stored("sum"))
    /\ (Fors /\ Jump = "BreakStatement" /\ exec.pc = "run" ~> exec.pc = "done")

C21_Witness ==
    /\ Fors /\ Jump = "BreakStatement"
    /\ ForEnd = 10 /\ JumpK = 5
    /\ exec.pc = "done"
    /\ exec.result = 10
    /\ \E j \in 1..Len(exec.path) : blocks[exec.path[j]].name = "if"

----------------------------------------------------------------------------
(* C27 *)

\* How many times the run entered block b.
Entries(b) == Cardinality({j \in 1..Len(exec.path) : exec.path[j] = b})

\* The run of a for loop without break or continue, so far: the first
\* block entered is the body, by the unconditional branch; every later one
\* is entered by the test, which comes after the body and the update: the
\* j-th test is that of i < limit with i = start + j.
ForRunsBodyFirst ==
    /\ exec.path = << >> => exec.evals = << >>
    /\ exec.path # << >> =>
           /\ exec.path[1] = ForBody
           /\ Len(exec.evals) = Len(exec.path) - 1
    /\ \A j \in 1..Len(exec.evals) :
           /\ exec.evals[j] = (ForStart + j < ForEnd)
           /\ exec.path[j + 1] = IF exec.evals[j] THEN ForBody ELSE ForOtherwise

\* The run is over: the body ran once at least.
ForRanBodyFirst ==
    /\ Entries(ForBody) = (IF ForStart + 1 < ForEnd THEN ForEnd - ForStart ELSE 1)
    /\ Stored("sum") = ForStart + SumFrom(ForStart + 1, ForEnd)

\* C27: the code of a for statement enters the body after the initializing
\* let without a test of the condition, and tests it after the body and the
\* update statement only: the body runs once even if the condition is false
\* for the initial value.
C27_ForTestsAfterBody ==
    /\ [](Fors /\ Jump = "none" /\ exec.pc \in {"run", "done"} => ForRunsBodyFirst)
    /\ [](Fors /\ Jump = "none" /\ exec.pc = "done" => ForRanBodyFirst)
    /\ (Fors /\ Jump = "none" /\ exec.pc = "run" ~> exec.pc = "done")

C27_Witness ==
    /\ Fors /\ Jump = "none"
    /\ ForStart = 10 /\ ForEnd = 5
    /\ exec.pc = "done"
    /\ Entries(ForBody) = 1
    /\ exec.evals = <<FALSE>>
    /\ Stored("sum") = 10

----------------------------------------------------------------------------
(* C28 *)

\* The run is at the branch emitted for the continue statement, which ends
\* the block of the if.
AtContinue ==
    /\ Fors /\ Jump = "ContinueStatement"
    /\ exec.pc = "run"
    /\ blocks[exec.block].name = "if"
    /\ Current.op = "br"

\* While the body of a for statement is compiled, the continue target is
\* the block the body started at.
ContinueTargetIsBody ==
    ForFrames # << >> /\ raised = "none" =>
        /\ continues # << >>
        /\ Last(continues) = Last(ForFrames).for_loop_entry
        /\ blocks[Last(continues)].name = "for_loop_entry"

\* C28: the continue target of a for statement is the block its body
\* starts at: the run of a continue goes to the first instruction of the
\* body, with no update of the loop variable and no test of the condition
\* in between, and so comes to the continue again with the same value and
\* never to the end of main.
C28_ContinueRestartsBody ==
    /\ []ContinueTargetIsBody
    /\ [][AtContinue =>
             /\ exec'.block = ForBody /\ exec'.ip = 1
             /\ exec'.mem = exec.mem
             /\ exec'.evals = exec.evals]_vars
    /\ [](AtContinue => Stored("i") = JumpK)
    /\ [](Fors /\ Jump = "ContinueStatement" => exec.pc # "done")
    /\ [](Fors /\ Jump = "ContinueStatement" /\ exec.pc = "run" => <>AtContinue)

C28_Witness ==
    /\ AtContinue
    /\ Entries(ForBody) > JumpK + 2
    /\ Stored("i") = JumpK
    /\ Stored("sum") = SumFrom(0, JumpK)

----------------------------------------------------------------------------
(* C30 *)

\* The operands of e are both integer-typed (class "int") or both
\* float-typed (class "float"), and its operator has no case.
Uncased(c, e, class) ==
    /\ e.type = "InfixExpression"
    /\ e.operator \notin OperatorTable
    /\ IF class = "int"
       THEN /\ IsIntType(ResolveValue(c, e.left_node).Type)
            /\ IsIntType(ResolveValue(c, e.right_node).Type)
       ELSE /\ IsFloatType(ResolveValue(c, e.left_node).Type)
            /\ IsFloatType(ResolveValue(c, e.right_node).Type)

\* C30: the lowering of an infix expression with two integer operands or
\* two float operands and an operator outside + - * / % ^ < <= > >= ==
\* (as != is) emits no instruction, records no error, raises nothing, and
\* returns no value, with the int type (the float type for floats).
C30_UncasedOperatorYieldsNothing ==
    [][\A class \in {"int", "float"} :
          (Visits("ExpressionStatement") /\ Uncased(Self, node'.expr, class)) =>
              /\ blocks' = blocks /\ nvalues' = nvalues
              /\ errors' = errors
              /\ raised' = "none"
              /\ VisitInfixExpression(Self, node'.expr).value = NoVal
              /\ VisitInfixExpression(Self, node'.expr).Type = type_map[class]
              /\ VisitInfixExpression(Self, node'.expr).c = Self]_vars

\* 2 != 3 was lowered, and the statement after it is next.
C30_Witness ==
    /\ node.type = "ExpressionStatement"
    /\ node.expr = InfixExpression(IntegerLiteralOf(2), "!=", IntegerLiteralOf(3))
    /\ raised = "none" /\ errors = << >>
    /\ \A b \in 1..Len(blocks) : blocks[b].instructions = << >>

----------------------------------------------------------------------------
(* C25 *)

\* The declaration names a parameter type or a return type that the type map
\* does not have.
UnknownType(nd) ==
    \/ \E i \in 1..Len(nd.parameters) :
          nd.parameters[i].value_type \notin DOMAIN type_map
    \/ nd.return_type \notin DOMAIN type_map

\* Whether a scope binds the name.
Defined(es, name) == \E e \in 1..Len(es) : name \in DOMAIN es[e].records

\* C25: the visit of a function declaration that names a parameter type or
\* a return type absent from the type map raises, and creates nothing
\* before it does: the module has no function more, no scope defines the
\* name that did not before, there is no block more, and the active scope
\* and the builder are the ones of before.
C25_UnknownTypeFailsFirst ==
    [][(Visits("FunctionStatement") /\ UnknownType(node')) =>
          /\ raised' = "KeyError"
          /\ module' = module
          /\ envs' = envs
          /\ Defined(envs', node'.name) = Defined(envs, node'.name)
          /\ blocks' = blocks
          /\ env' = env
          /\ builder' = builder
          /\ nvalues' = nvalues]_vars

\* The declaration of h after main, with a known parameter type and an
\* unknown return type, has failed: main is the only function.
C25_Witness ==
    /\ node.type = "FunctionStatement" /\ node.name = "h"
    /\ node.parameters[1].value_type = "int"
    /\ node.return_type = "long"
    /\ raised = "KeyError"
    /\ Len(module) = 1 /\ module[1].name = "main"
    /\ ~Defined(envs, "h")

----------------------------------------------------------------------------
(* C26 *)

\* The assignment visited binds no name anew and changes no scope.
AssignKeepsBindings ==
    /\ envs' = envs
    /\ env' = env
    /\ lookup(envs', env', node'.name) = lookup(envs, env, node'.name)

\* The assignment visited put a store of its value to the slot of its name
\* where the builder stood.
AssignStores ==
    /\ raised' = "none"
    /\ builder.block # 0
    /\ blocks'[builder.block].instructions =
           InsertAt(blocks[builder.block].instructions, builder.anchor,
                    [op |-> "store",
                     value |-> ResolveValue(Self, node'.value).value,
                     ptr |-> lookup(envs, env, node'.name).val])

\* C26: an assignment to a name that resolves to a variable's slot stores
\* the value into that slot and changes no binding: every scope maps as
\* before and the name keeps the type of its declaration, also when the
\* value assigned has another type.
C26_AssignStoresAndKeepsBindings ==
    [][(/\ Visits("AssignStatement")
        /\ lookup(envs, env, node'.name) # None
        /\ lookup(envs, env, node'.name).val.k = "alloca") =>
          AssignStores /\ AssignKeepsBindings]_vars

\* The part of C26 about the bindings alone.
AssignLeavesBindings ==
    [][(Visits("AssignStatement") /\ lookup(envs, env, node'.name) # None) =>
          AssignKeepsBindings]_vars

----------------------------------------------------------------------------
(* C23 *)

\* The globals of the module made for string literals, by their place.
StringGlobals(m) == {i \in 1..Len(m) : "initializer" \in DOMAIN m[i]}

\* The string literals of the statement nd: those among the arguments of
\* the call of an expression statement, and the value of a let.
Literals(nd) ==
    IF nd.type = "LetStatement"
    THEN IF nd.value.type = "StringLiteral" THEN 1 ELSE 0
    ELSE IF nd.type = "ExpressionStatement" /\ "arguments" \in DOMAIN nd.expr
         THEN Cardinality({i \in 1..Len(nd.expr.arguments) :
                              nd.expr.arguments[i].type = "StringLiteral"})
    ELSE 0

\* No two globals of the module have one name.
DistinctNames(m) ==
    \A i \in StringGlobals(m) : \A j \in 1..Len(m) : i # j => m[i].name # m[j].name

\* The names __str_<n> for the values the counter took after it was lo and
\* up to hi.
NamesBetween(lo, hi) == {"__str_" \o ToString(n) : n \in (lo + 1)..hi}

\* C23: every string literal lowered in a compilation creates a new global
\* constant, named __str_<n> unlike the global of any other string
\* literal of the module, n being a value of the counter, which only
\* increases; so it is however the literals lie among if/else, while and
\* for statements, which number their blocks by the same counter.
C23_StringGlobalsNamedApart ==
    /\ []DistinctNames(module)
    /\ [][counter' >= counter]_vars
    /\ [][(AtStatement /\ fuel' = fuel - 1 /\ Literals(node') > 0) =>
             /\ raised' # "DuplicatedNameError"
             /\ raised' = "none" =>
                   /\ Cardinality(StringGlobals(module')) =
                          Cardinality(StringGlobals(module)) + Literals(node')
                   /\ \A i \in StringGlobals(module') \ StringGlobals(module) :
                          module'[i].name \in NamesBetween(counter, counter')]_vars

\* Literals before and inside a loop that lies in the alternative of an
\* if/else: the counter went on between them.
C23_Witness ==
    /\ raised = "none"
    /\ Cardinality(StringGlobals(module)) >= 2
    /\ counter > Cardinality(StringGlobals(module))
    /\ \E i \in 1..Len(stack) : stack[i].k \in {"WhileStatement", "ForStatement"}
    /\ node.type = "ExpressionStatement" /\ Literals(node) = 2

----------------------------------------------------------------------------
(* C24 *)

PowerNames == {"llvm.pow.f32", "llvm.pow.f64"}

\* The declarations of the power primitives in the module, by their place.
PowerDeclarations(m) == {i \in 1..Len(m) : m[i].name \in PowerNames}

\* The places <<b, j>> of the calls of a power primitive in the code.
PowerCalls ==
    {x \in (1..Len(blocks)) \X (1..8) :
        /\ x[2] <= Len(blocks[x[1]].instructions)
        /\ blocks[x[1]].instructions[x[2]].op = "call"
        /\ blocks[x[1]].instructions[x[2]].func.k = "func"
        /\ blocks[x[1]].instructions[x[2]].func.id \in PowerDeclarations(module)}

\* The statement visited is a power of two integers or of two floats.
VisitsPower ==
    /\ Visits("ExpressionStatement")
    /\ node'.expr.type = "InfixExpression" /\ node'.expr.operator = "^"

\* C24: however many ^ expressions are compiled into a module, in one
\* function or in several, the module holds at most one declaration of each
\* power primitive: the first use declares it, and every later use declares
\* nothing and calls the declaration that is there.
C24_PowerDeclaredOnce ==
    /\ [](\A name \in PowerNames :
             Cardinality({i \in 1..Len(module) : module[i].name = name}) <= 1)
    /\ [][VisitsPower =>
             /\ raised' # "DuplicatedNameError"
             /\ PowerDeclarations(module) # {} => module' = module
             /\ raised' = "none" =>
                   /\ Cardinality(PowerDeclarations(module')) = 1
                   /\ \E j \in (builder.anchor + 1)..builder'.anchor :
                          /\ blocks'[builder.block].instructions[j].op = "call"
                          /\ blocks'[builder.block].instructions[j].func.id
                                 \in PowerDeclarations(module')]_vars

\* Two functions, each with a call of the one declaration.
C24_Witness ==
    /\ raised = "none"
    /\ Cardinality(PowerDeclarations(module)) = 1
    /\ Cardinality({blocks[x[1]].parent : x \in PowerCalls}) = 2

----------------------------------------------------------------------------
(* C22 *)

\* The statement visited is a call of printf with a string literal first.
VisitsPrintf ==
    /\ Visits("ExpressionStatement")
    /\ node'.expr.type = "CallExpression" /\ node'.expr.value = "printf"
    /\ node'.expr.arguments[1].type = "StringLiteral"

\* The arguments of the call visited, as they resolve.
PrintfArguments ==
    ResolveArguments([c |-> Self, args |-> << >>, types |-> << >>],
                     node'.expr.arguments, 1).args

\* The last two instructions the visit emitted: the cast of the format
\* and the call.
FormatCast == blocks'[builder.block].instructions[builder'.anchor - 1]
PrintfCalled == blocks'[builder.block].instructions[builder'.anchor]

\* The printf call emitted takes the cast of the global made for the first
\* argument, whose text is that of the literal, and the other arguments
\* after it, in their order.
FormatIsFirstArgument ==
    /\ FormatCast.op = "bitcast"
    /\ FormatCast.value = PrintfArguments[1]
    /\ module'[FormatCast.value.id].initializer = Bytes(node'.expr.arguments[1].string)
    /\ PrintfCalled.op = "call" /\ PrintfCalled.func = PrintfVal
    /\ PrintfCalled.args =
           <<[k |-> "inst", id |-> FormatCast.id, ty |-> "i8*"]>> \o Tail(PrintfArguments)

\* C22: for a printf call whose first argument is a string literal, the
\* format pointer of the printf call emitted refers to the global made for
\* that argument, and the other arguments follow it in source order,
\* whatever the arguments are, a later string literal among them too.
C22_FormatIsFirstArgument ==
    [][(VisitsPrintf /\ raised' = "none") => FormatIsFirstArgument]_vars

\* The same for the calls in which no argument after the first is a string
\* literal.
FormatOfOnlyLiteral ==
    [][(VisitsPrintf /\ raised' = "none" /\ Literals(node') = 1) =>
          FormatIsFirstArgument]_vars

----------------------------------------------------------------------------
(* C29 *)

\* The literal of ConvertSpec is converted: its text and the characters of
\* the array made for it.
Converted == node.type = "StringLiteral" /\ fuel = 0
Text == node.string
Array == module[1].initializer

\* Where the text has the escape, backslash and n.
Escapes(text) ==
    {i \in 1..(Len(text) - 1) : text[i] = "\\" /\ text[i + 1] = "n"}

Nulls(bytes) == {i \in 1..Len(bytes) : bytes[i] = "NUL"}

\* The array is the text, the i-th character at the i-th place, but for a
\* newline and a null in the two places of every escape, and one null more
\* at the end.
ArrayOfText ==
    /\ Len(Array) = Len(Text) + 1
    /\ Array[Len(Array)] = "NUL"
    /\ \A i \in 1..Len(Text) :
           Array[i] = IF i \in Escapes(Text) THEN "LF"
                      ELSE IF i - 1 \in Escapes(Text) THEN "NUL"
                      ELSE Text[i]

\* C29: the array made for a string literal is its characters with every
\* escape backslash-n replaced by a newline and a null, and a null at the
\* end: its last character is null, a text with k escapes has k + 1 nulls
\* in it, and what follows the first escape lies behind a null.
C29_EscapesBecomeNewlineAndNull ==
    Converted =>
        /\ raised = "none"
        /\ module[1].name = "__str_1"
        /\ module[1].return_type = ArrayType(Len(Array))
        /\ ArrayOfText
        /\ Cardinality(Nulls(Array)) = Cardinality(Escapes(Text)) + 1
        /\ \A i \in Escapes(Text) : \A j \in (i + 2)..Len(Array) :
               \E z \in Nulls(Array) : z < j

\* a, the escape, a: the second a lies behind the null of the escape.
C29_Witness ==
    /\ Converted
    /\ Text = <<"a", "\\", "n", "a">>
    /\ Array = <<"a", "LF", "NUL", "a", "NUL">>

====
